---- MODULE Spec2Model ----
(***************************************************************************)
(* Blob storage abstraction of dadsbot (lib/blob.ts, utils/blob-env.ts,    *)
(* lib/secrets.server.ts): the facade that switches between the in-process *)
(* memory store and the Supabase storage HTTP API, its path codec, its     *)
(* list pager and its configuration lookups.                               *)
(*                                                                         *)
(* Strings are sequences of one-character strings, so that prefix tests,   *)
(* slash stripping, percent decoding and both string orderings of          *)
(* JavaScript (code units for `>`, collation for localeCompare) are        *)
(* computed character by character.                                        *)
(***************************************************************************)
EXTENDS Integers, Sequences, FiniteSets, TLC

(***************************************************************************)
(* Strings                                                                 *)
(***************************************************************************)

\* The UTF-16 code unit of each character the model's strings are built of.
CodeUnit(c) ==
  CASE c = "%" -> 37 [] c = "-" -> 45 [] c = "." -> 46 [] c = "/" -> 47
    [] c = "0" -> 48 [] c = "1" -> 49
    [] c = "2" -> 50 [] c = "3" -> 51 [] c = "5" -> 53 [] c = "7" -> 55
    [] c = ":" -> 58
    [] c = "A" -> 65 [] c = "B" -> 66 [] c = "C" -> 67 [] c = "D" -> 68
    [] c = "F" -> 70
    [] c = "a" -> 97 [] c = "b" -> 98 [] c = "c" -> 99 [] c = "d" -> 100
    [] c = "e" -> 101 [] c = "h" -> 104 [] c = "i" -> 105 [] c = "j" -> 106
    [] c = "l" -> 108 [] c = "n" -> 110 [] c = "o" -> 111 [] c = "p" -> 112
    [] c = "q" -> 113 [] c = "s" -> 115 [] c = "t" -> 116 [] c = "x" -> 120
    [] c = "z" -> 122

\* Primary collation weight (CLDR root order): punctuation, then digits,
\* then letters without regard to case.
PrimaryWeight(c) ==
  CASE c = "-" -> 1 [] c = ":" -> 2 [] c = "." -> 3 [] c = "/" -> 4
    [] c = "%" -> 5
    [] c = "0" -> 10 [] c = "1" -> 11
    [] c = "2" -> 12 [] c = "3" -> 13 [] c = "5" -> 15 [] c = "7" -> 17
    [] c \in {"a", "A"} -> 21 [] c \in {"b", "B"} -> 22
    [] c \in {"c", "C"} -> 23 [] c \in {"d", "D"} -> 24
    [] c = "e" -> 25 [] c = "F" -> 26
    [] c = "h" -> 28 [] c = "i" -> 29 [] c = "j" -> 30 [] c = "l" -> 32
    [] c = "n" -> 34 [] c = "o" -> 35 [] c = "p" -> 36 [] c = "q" -> 37
    [] c = "s" -> 39 [] c = "t" -> 40 [] c = "x" -> 44
    [] c = "z" -> 46

\* Tertiary collation weight: a lower-case letter before its upper-case form.
TertiaryWeight(c) == IF c \in {"A", "B", "C", "D", "F"} THEN 1 ELSE 0

\* a.toLowerCase() for the ASCII letters of the model.
LowerChar(c) ==
  CASE c = "A" -> "a" [] c = "B" -> "b" [] c = "C" -> "c" [] c = "D" -> "d"
    [] c = "E" -> "e" [] c = "F" -> "f" [] c = "M" -> "m" [] c = "O" -> "o"
    [] c = "R" -> "r" [] c = "S" -> "s" [] c = "Y" -> "y" [] OTHER -> c

toLowerCase(s) == [i \in 1..Len(s) |-> LowerChar(s[i])]

\* The weight of character c in an ordering: by code unit, or by the
\* primary or the tertiary strength of the collation.
Weight(order, c) ==
  CASE order = "codeUnit" -> CodeUnit(c)
    [] order = "primary" -> PrimaryWeight(c)
    [] order = "tertiary" -> TertiaryWeight(c)

\* Three-way lexicographic comparison of two sequences under an ordering:
\* -1, 0 or 1; a proper prefix sorts first.
RECURSIVE LexCompare(_, _, _, _)
LexCompare(order, a, b, i) ==
  IF i > Len(a) /\ i > Len(b) THEN 0
  ELSE IF i > Len(a) THEN -1
  ELSE IF i > Len(b) THEN 1
  ELSE IF Weight(order, a[i]) < Weight(order, b[i]) THEN -1
  ELSE IF Weight(order, a[i]) > Weight(order, b[i]) THEN 1
  ELSE LexCompare(order, a, b, i + 1)

\* a > b on JavaScript strings: code unit by code unit.
CodeUnitGreater(a, b) == LexCompare("codeUnit", a, b, 1) = 1

\* a.localeCompare(b): the primary weights of the whole strings decide; on a
\* tie the case of the letters does.
localeCompare(a, b) ==
  LET p == LexCompare("primary", a, b, 1)
  IN IF p # 0 THEN p ELSE LexCompare("tertiary", a, b, 1)

startsWith(s, p) == Len(p) <= Len(s) /\ SubSeq(s, 1, Len(p)) = p

\* s.slice(n) for 0 <= n
sliceFrom(s, n) == SubSeq(s, n + 1, Len(s))

\* s.slice(0, n)
sliceTo(s, n) == SubSeq(s, 1, IF n < Len(s) THEN n ELSE Len(s))

\* s.lastIndexOf(c), 0-based, -1 when absent
lastIndexOf(s, c) ==
  LET hits == {i \in 1..Len(s) : s[i] = c}
  IN IF hits = {} THEN -1 ELSE (CHOOSE i \in hits : \A j \in hits : j <= i) - 1

\* The value that stands for null / undefined.
\* It is a sequence, as strings are, and no string: its one element is not a
\* character.
Null == <<"null">>

(***************************************************************************)
(* Path codec                                                              *)
(***************************************************************************)

BLOB_PROXY_PREFIX == <<"/", "a", "p", "i", "/", "b", "l", "o", "b", "/">>

DataScheme == <<"d", "a", "t", "a", ":">>

\* path.replace(/^\/+/, '')
RECURSIVE normalizePath(_)
normalizePath(path) ==
  IF path # <<>> /\ Head(path) = "/" THEN normalizePath(Tail(path)) ELSE path

\* s.replace(/\/+$/, '')
RECURSIVE stripTrailingSlashes(_)
stripTrailingSlashes(s) ==
  IF s # <<>> /\ s[Len(s)] = "/"
  THEN stripTrailingSlashes(SubSeq(s, 1, Len(s) - 1))
  ELSE s

\* s.replace(/\/+/, '/'): the first run of slashes becomes one slash (the
\* pattern has no g flag).
collapseFirstSlashRun(s) ==
  LET slashes == {i \in 1..Len(s) : s[i] = "/"}
  IN IF slashes = {} THEN s
     ELSE LET first == CHOOSE i \in slashes : \A j \in slashes : i <= j
              after == {i \in first..Len(s) : s[i] # "/"}
              stop == IF after = {} THEN Len(s) + 1
                      ELSE CHOOSE i \in after : \A j \in after : i <= j
          IN SubSeq(s, 1, first) \o SubSeq(s, stop, Len(s))

HexDigits == {"2", "3", "5", "A", "F"}

\* The character a %XY escape decodes to.
EscapedChar(x, y) ==
  CASE x = "2" /\ y = "F" -> "/"
    [] x = "3" /\ y = "A" -> ":"
    [] x = "2" /\ y = "5" -> "%"
    [] OTHER -> "?"

\* decodeURIComponent(s): Null stands for the URIError a malformed escape
\* throws.
RECURSIVE decodeURIComponent(_)
decodeURIComponent(s) ==
  IF s = <<>> THEN <<>>
  ELSE IF Head(s) # "%"
  THEN LET rest == decodeURIComponent(Tail(s))
       IN IF rest = Null THEN Null ELSE <<Head(s)>> \o rest
  ELSE IF Len(s) < 3 \/ s[2] \notin HexDigits \/ s[3] \notin HexDigits
  THEN Null
  ELSE LET rest == decodeURIComponent(SubSeq(s, 4, Len(s)))
       IN IF rest = Null THEN Null ELSE <<EscapedChar(s[2], s[3])>> \o rest

(***************************************************************************)
(* Configuration: lib/secrets.server.ts and utils/blob-env.ts              *)
(***************************************************************************)

ModeMemory == <<"m", "e", "m", "o", "r", "y">>

ModeSupabase == <<"s", "u", "p", "a", "b", "a", "s", "e">>

STORAGE_MODE_OPTIONS == <<ModeSupabase, ModeMemory>>

\* The names of the secrets the blob layer looks up.
SecretKeys ==
  {"STORAGE_MODE", "SUPABASE_URL", "SUPABASE_SERVICE_ROLE_KEY",
   "SUPABASE_STORAGE_BUCKET", "PUBLIC_STORAGE_BASE_URL"}

\* A secrets cache that holds nothing: `cache = null`.
NoCache == [loaded |-> FALSE, values |-> [k \in SecretKeys |-> Null]]

\* ensureCache(): the cache in use after a lookup. A loaded cache is kept; an
\* empty one is filled from the configuration source, and stays empty when the
\* source cannot be read (loadSecrets throws).
ensureCache(c, src) ==
  IF c.loaded THEN c
  ELSE IF src.readable THEN [loaded |-> TRUE, values |-> src.values]
  ELSE NoCache

\* lookupSecret(key) on a loaded cache: the value, or Null for undefined.
lookupSecret(c, key) == c.values[key]

getSecret(c, key) == lookupSecret(c, key)

\* An Error, by what its message carries: the secret a configuration error
\* names, the status and the response text a backend error carries.
Failure(kind, key, status, text) ==
  [kind |-> kind, key |-> key, status |-> status, text |-> text]

NoError == Failure("none", "", 0, <<>>)

\* requireSecret(key): [ok, value | missing]. Values are never empty: the
\* parser rejects an entry without a value.
requireSecret(c, key) ==
  LET value == lookupSecret(c, key)
  IN IF value = Null THEN [ok |-> FALSE, error |-> Failure("missing-secret", key, 0, <<>>)]
     ELSE [ok |-> TRUE, value |-> value]

\* A lookup that falls back to memory when the value is not set or is not
\* among the allowed ones.
lenientSecretEnum(c, key, allowed) ==
  IF /\ lookupSecret(c, key) # Null
     /\ \E i \in 1..Len(allowed) :
          toLowerCase(allowed[i]) = toLowerCase(lookupSecret(c, key))
  THEN [ok |-> TRUE, value |-> toLowerCase(lookupSecret(c, key))]
  ELSE [ok |-> TRUE, value |-> ModeMemory]

\* requireSecretEnum(key, allowed): the allowed option equal to the value
\* without regard to case.
requireSecretEnum(c, key, allowed) ==
  LET r == requireSecret(c, key)
  IN IF ~r.ok THEN r
     ELSE LET normalized == toLowerCase(r.value)
              hits == {i \in 1..Len(allowed) : toLowerCase(allowed[i]) = normalized}
          IN IF hits = {} THEN [ok |-> FALSE, error |-> Failure("invalid-enum", key, 0, <<>>)]
             ELSE [ok |-> TRUE,
                   value |-> allowed[CHOOSE i \in hits : \A j \in hits : i <= j]]

getStorageMode(c) == requireSecretEnum(c, "STORAGE_MODE", STORAGE_MODE_OPTIONS)

\* resolveMode(): [ok, value] or the error it rethrows. With a source that
\* cannot be read the lookup itself throws.
resolveMode(c) ==
  IF ~c.loaded THEN [ok |-> FALSE, error |-> Failure("secrets-unreadable", "", 0, <<>>)]
  ELSE getStorageMode(c)

\* assertBlobEnv(): the error it throws, or ok.
assertBlobEnv(c) ==
  LET mode == getStorageMode(c)
  IN IF ~mode.ok THEN mode
     ELSE IF mode.value = ModeSupabase
     THEN LET url == requireSecret(c, "SUPABASE_URL")
              key == requireSecret(c, "SUPABASE_SERVICE_ROLE_KEY")
              bucket == requireSecret(c, "SUPABASE_STORAGE_BUCKET")
          IN IF ~url.ok THEN url
             ELSE IF ~key.ok THEN key
             ELSE IF ~bucket.ok THEN bucket
             ELSE [ok |-> TRUE, value |-> mode.value]
     ELSE [ok |-> TRUE, value |-> mode.value]

\* `supabaseState = null`
NoSupabase == [set |-> FALSE, url |-> Null, key |-> Null, bucket |-> Null]

\* Credentials resolved from the secrets on every call, cached or not.
ensureSupabaseAnew(st, c) ==
  LET url == requireSecret(c, "SUPABASE_URL")
      key == requireSecret(c, "SUPABASE_SERVICE_ROLE_KEY")
      bucket == requireSecret(c, "SUPABASE_STORAGE_BUCKET")
  IN IF ~url.ok THEN [ok |-> FALSE, error |-> url.error, state |-> st]
     ELSE IF ~key.ok THEN [ok |-> FALSE, error |-> key.error, state |-> st]
     ELSE IF ~bucket.ok THEN [ok |-> FALSE, error |-> bucket.error, state |-> st]
     ELSE [ok |-> TRUE,
           state |-> [set |-> TRUE, url |-> stripTrailingSlashes(url.value),
                      key |-> key.value, bucket |-> bucket.value]]

\* ensureSupabase(): [ok, state] where state is the cached credentials after
\* the call, or the error thrown (the cached credentials are then unchanged).
ensureSupabase(st, c) ==
  IF st.set THEN [ok |-> TRUE, state |-> st]
  ELSE LET env == assertBlobEnv(c)
           url == requireSecret(c, "SUPABASE_URL")
           key == requireSecret(c, "SUPABASE_SERVICE_ROLE_KEY")
           bucket == requireSecret(c, "SUPABASE_STORAGE_BUCKET")
       IN IF ~env.ok THEN [ok |-> FALSE, error |-> env.error, state |-> st]
          ELSE IF ~url.ok THEN [ok |-> FALSE, error |-> url.error, state |-> st]
          ELSE IF ~key.ok THEN [ok |-> FALSE, error |-> key.error, state |-> st]
          ELSE IF ~bucket.ok
          THEN [ok |-> FALSE, error |-> bucket.error, state |-> st]
          ELSE [ok |-> TRUE,
                state |-> [set |-> TRUE, url |-> stripTrailingSlashes(url.value),
                           key |-> key.value, bucket |-> bucket.value]]

(***************************************************************************)
(* URLs. The model's URLs are http(s) URLs whose host is made of letters   *)
(* and whose path has no dot segment, query or fragment; on those the      *)
(* WHATWG parser does what parseUrl does.                                  *)
(***************************************************************************)

HttpScheme == <<"h", "t", "t", "p", ":">>

HttpsScheme == <<"h", "t", "t", "p", "s", ":">>

\* /^https?:/i.test(s)
isHttpUrl(s) ==
  \/ startsWith(toLowerCase(sliceTo(s, Len(HttpScheme))), HttpScheme)
  \/ startsWith(toLowerCase(sliceTo(s, Len(HttpsScheme))), HttpsScheme)

\* The position of the first "/" of s, or Len(s) + 1.
firstSlash(s) ==
  LET slashes == {i \in 1..Len(s) : s[i] = "/"}
  IN IF slashes = {} THEN Len(s) + 1
     ELSE CHOOSE i \in slashes : \A j \in slashes : i <= j

\* new URL(s) for an s that passes /^https?:/i: the slashes after the scheme
\* are skipped, the host runs to the next slash, an empty host is a TypeError.
parseUrl(s) ==
  IF ~isHttpUrl(s) THEN [valid |-> FALSE]
  ELSE LET colon == CHOOSE i \in 1..Len(s) : s[i] = ":" /\ \A j \in 1..(i - 1) : s[j] # ":"
           rest == normalizePath(sliceFrom(s, colon))
           cut == firstSlash(rest)
           host == toLowerCase(SubSeq(rest, 1, cut - 1))
           path == SubSeq(rest, cut, Len(rest))
       IN IF host = <<>> THEN [valid |-> FALSE]
          ELSE [valid |-> TRUE,
                origin |-> toLowerCase(SubSeq(s, 1, colon)) \o <<"/", "/">> \o host,
                pathname |-> IF path = <<>> THEN <<"/">> ELSE path]

\* encodeURIComponent of one character: letters, digits and - . are kept.
EncodedChar(c) ==
  CASE c = ":" -> <<"%", "3", "A">>
    [] c = "%" -> <<"%", "2", "5">>
    [] OTHER -> <<c>>

\* path.split('/').map(encodeURIComponent).join('/'): every character but the
\* slash is encoded.
RECURSIVE encodePathForUrl(_)
encodePathForUrl(path) ==
  IF path = <<>> THEN <<>>
  ELSE (IF Head(path) = "/" THEN <<"/">> ELSE EncodedChar(Head(path)))
       \o encodePathForUrl(Tail(path))

\* The directory of a URL path: up to and including its last slash.
urlDirectory(pathname) == SubSeq(pathname, 1, lastIndexOf(pathname, "/") + 1)

\* new URL(relative, base).toString() for a relative reference that is a
\* path without a leading slash: it replaces the last segment of the base.
resolveUrl(relative, base) ==
  base.origin \o (IF relative = <<>> THEN base.pathname
                  ELSE urlDirectory(base.pathname) \o relative)

\* override.trim().replace(/\/+$|^\/+/, ''): the pattern has no g flag, so
\* only its first match goes: the leading slashes when there are some, else
\* the trailing ones.
stripOneEnd(s) ==
  IF s # <<>> /\ Head(s) = "/" THEN normalizePath(s) ELSE stripTrailingSlashes(s)

\* buildProxyUrl(path)
buildProxyUrl(c, path) ==
  LET encoded == encodePathForUrl(normalizePath(path))
      override == getSecret(c, "PUBLIC_STORAGE_BASE_URL")
  IN IF override # Null /\ isHttpUrl(override)
     THEN LET base == parseUrl(override)
          IN IF base.valid THEN resolveUrl(encoded, base)
             ELSE BLOB_PROXY_PREFIX \o encoded
     ELSE IF override # Null
     THEN collapseFirstSlashRun(<<"/">> \o stripOneEnd(override) \o <<"/">> \o encoded)
     ELSE BLOB_PROXY_PREFIX \o encoded

\* What extractPathFromUrl does when decodeURIComponent throws.
URIError == <<"URIError">>

decodeOrThrow(s) ==
  LET d == decodeURIComponent(s) IN IF d = Null THEN URIError ELSE d

\* extractPathFromUrl(input): the key, Null, or URIError when it throws.
extractPathFromUrl(c, input) ==
  IF input = <<>> THEN Null
  ELSE IF startsWith(input, DataScheme) THEN Null
  ELSE IF startsWith(input, BLOB_PROXY_PREFIX)
  THEN decodeOrThrow(sliceFrom(input, Len(BLOB_PROXY_PREFIX)))
  ELSE IF isHttpUrl(input)
  THEN LET url == parseUrl(input)
           baseOverride == getSecret(c, "PUBLIC_STORAGE_BASE_URL")
           base == IF baseOverride = Null THEN [valid |-> FALSE]
                   ELSE parseUrl(baseOverride)
       IN IF ~url.valid THEN Null
          ELSE IF startsWith(url.pathname, BLOB_PROXY_PREFIX)
          THEN \* a URIError here is caught by the outer try: return null
               decodeURIComponent(sliceFrom(url.pathname, Len(BLOB_PROXY_PREFIX)))
          ELSE IF base.valid /\ base.origin = url.origin
                  /\ startsWith(url.pathname, base.pathname)
          THEN \* a URIError here is caught by the inner try and ignored
               LET relative == decodeURIComponent(
                     normalizePath(sliceFrom(url.pathname, Len(base.pathname))))
               IN IF relative = Null THEN normalizePath(input) ELSE relative
          ELSE normalizePath(input)
  ELSE normalizePath(input)

Base36Digits ==
  <<"0", "1", "2", "3", "4", "5", "6", "7", "8", "9", "a", "b", "c", "d", "e",
    "f", "g", "h", "i", "j", "k", "l", "m", "n", "o", "p", "q", "r", "s", "t",
    "u", "v", "w", "x", "y", "z">>

\* n.toString(36), n a natural number
RECURSIVE toString36(_)
toString36(n) ==
  IF n < 36 THEN <<Base36Digits[n + 1]>>
  ELSE toString36(n \div 36) \o <<Base36Digits[(n % 36) + 1]>>

\* `-${Math.random().toString(36).slice(2, 10)}-${Date.now().toString(36)}`,
\* random the characters the slice of the random draw gives, time the
\* clock's reading.
randomSuffix(random, time) == <<"-">> \o random \o <<"-">> \o toString36(time)

\* applyRandomSuffix(path), with the random and the time part of the suffix
\* given: `-${random}-${time}` goes before the last "." of the path.
applyRandomSuffix(path, token) ==
  LET normalized == normalizePath(path)
      index == lastIndexOf(normalized, ".")
  IN IF index = -1 THEN normalized \o token
     ELSE sliceTo(normalized, index) \o token \o sliceFrom(normalized, index)

(***************************************************************************)
(* List pager                                                              *)
(***************************************************************************)

\* buildListedBlob(pathname): the listed entry of a pathname (uploadedAt and
\* size, copied from the record, are left out).
buildListedBlob(c, pathname) ==
  [pathname |-> pathname, url |-> buildProxyUrl(c, pathname)]

\* One step of [...blobs].sort((a, b) => a.pathname.localeCompare(b.pathname)):
\* e goes after every entry that does not sort after it (the sort is stable).
RECURSIVE insertByLocale(_, _)
insertByLocale(e, sorted) ==
  IF sorted = <<>> THEN <<e>>
  ELSE IF localeCompare(Head(sorted).pathname, e.pathname) <= 0
  THEN <<Head(sorted)>> \o insertByLocale(e, Tail(sorted))
  ELSE <<e>> \o sorted

RECURSIVE sortByLocale(_)
sortByLocale(blobs) ==
  IF blobs = <<>> THEN <<>>
  ELSE insertByLocale(blobs[Len(blobs)], sortByLocale(SubSeq(blobs, 1, Len(blobs) - 1)))

\* entry.pathname > cursor, as filterByCursor's findIndex tests it.
afterCursor(pathname, cursor) == CodeUnitGreater(pathname, cursor)

\* sorted.findIndex((entry) => entry.pathname > cursor), counted from 0.
findIndexAfter(sorted, cursor) ==
  LET later == {i \in 1..Len(sorted) : afterCursor(sorted[i].pathname, cursor)}
  IN IF later = {} THEN -1
     ELSE (CHOOSE i \in later : \A j \in later : i <= j) - 1

\* filterByCursor's startIndex, cursorIndex being what findIndex returned; the
\* empty cursor is the absent one (`if (cursor)`).
startIndexFor(sorted, cursor, cursorIndex) ==
  IF cursor = <<>> THEN 0
  ELSE IF cursorIndex = -1 THEN Len(sorted)
  ELSE cursorIndex

\* A slice that runs to the end whatever the limit.
sliceToEnd(sorted, startIndex, limit) == SubSeq(sorted, startIndex + 1, Len(sorted))

\* sorted.slice(startIndex, startIndex + limit)
sliceOf(sorted, startIndex, limit) ==
  SubSeq(sorted, startIndex + 1,
         IF startIndex + limit < Len(sorted) THEN startIndex + limit ELSE Len(sorted))

\* hasMore and nextCursor of a slice; nextCursor Null is undefined.
sliced(sorted, startIndex, slice) ==
  [slice |-> slice,
   hasMore |-> startIndex + Len(slice) < Len(sorted),
   nextCursor |-> IF startIndex + Len(slice) < Len(sorted) /\ Len(slice) > 0
                  THEN slice[Len(slice)].pathname
                  ELSE Null]

pageFrom(sorted, startIndex, limit) ==
  sliced(sorted, startIndex, sliceOf(sorted, startIndex, limit))

pageOfSorted(sorted, limit, cursor) ==
  pageFrom(sorted, startIndexFor(sorted, cursor, findIndexAfter(sorted, cursor)), limit)

\* filterByCursor(blobs, limit, cursor)
filterByCursor(blobs, limit, cursor) == pageOfSorted(sortByLocale(blobs), limit, cursor)

DefaultListLimit == 100

\* listBlobs' limit: `options.limit && Number.isFinite(options.limit) ?
\* Math.max(1, options.limit) : 100`; 0 stands for every falsy limit.
effectiveLimit(limit) ==
  IF limit = 0 THEN DefaultListLimit ELSE IF limit < 1 THEN 1 ELSE limit

\* The elements of a finite set in some order: the order a Map iterates in
\* does not reach the result, which is sorted.
RECURSIVE SetToSeq(_)
SetToSeq(S) ==
  IF S = {} THEN <<>>
  ELSE LET x == CHOOSE y \in S : TRUE IN <<x>> \o SetToSeq(S \ {x})

\* A prefix test every key passes.
matchesAny(pathname, normalizedPrefix) == TRUE

\* The prefix test of listMemoryBlobs and deleteBlobsByPrefix.
matchesPrefix(pathname, normalizedPrefix) ==
  normalizedPrefix = <<>> \/ startsWith(pathname, normalizedPrefix)

\* The ListBlobResult made of what filterByCursor returned.
listResult(page) ==
  [blobs |-> page.slice, hasMore |-> page.hasMore, cursor |-> page.nextCursor]

\* The entries listMemoryBlobs builds for the keys that match.
memoryMatches(c, keys) == [i \in 1..Len(keys) |-> buildListedBlob(c, keys[i])]

\* listMemoryBlobs(prefix, limit, cursor) on a store
listMemoryBlobs(c, store, prefix, limit, cursor) ==
  listResult(filterByCursor(
    memoryMatches(c, SetToSeq({k \in DOMAIN store :
                                 matchesPrefix(k, normalizePath(prefix))})),
    limit, cursor))

\* The pathname listSupabaseBlobs gives a raw entry.
supabasePathname(normalizedPrefix, name) ==
  IF normalizedPrefix # <<>>
  THEN normalizePath(collapseFirstSlashRun(
         stripTrailingSlashes(normalizedPrefix) \o <<"/">> \o name))
  ELSE normalizePath(name)

\* The local prefix filter of listSupabaseBlobs.
keepListed(pathname, normalizedPrefix) ==
  normalizedPrefix = <<>> \/ startsWith(pathname, normalizedPrefix)

\* listSupabaseBlobs(prefix, limit, cursor) given the names the backend
\* answered with.
listSupabaseBlobs(c, names, prefix, limit, cursor) ==
  listResult(filterByCursor(
    SelectSeq([i \in 1..Len(names) |->
                 buildListedBlob(c, supabasePathname(normalizePath(prefix), names[i]))],
              LAMBDA e : keepListed(e.pathname, normalizePath(prefix))),
    limit, cursor))

(***************************************************************************)
(* State                                                                   *)
(***************************************************************************)

VARIABLES
  source,         \* the configuration source (tmpkeys.txt): readable, values
  cache,          \* secrets.server.ts `cache`
  supabaseState,  \* blob.ts `supabaseState`
  memoryStore,    \* blob.ts `memoryStore`: key -> record
  remoteStore,    \* the objects the storage backend holds: key -> record
  last,           \* the last call that returned or threw: op, ok, status
  listing,        \* a caller paging through listBlobs: the pages it has got
  inflight,       \* the call that is awaiting the storage backend's answer
  issued,         \* the keys that puts with addRandomSuffix have returned
  now,            \* Date.now()
  asked,          \* what a caller last gave readBlob, and what it got
  threads         \* the memory-mode calls of the request handlers, step by step

vars ==
  <<source, cache, supabaseState, memoryStore, remoteStore, last, listing,
    inflight, issued, now, asked, threads>>

\* What the callers of the synchronous steps leave alone.
callers == <<inflight, issued, now, asked, threads>>

\* The module state of the process and what it talks to, as one value, so
\* that calls compose.
World ==
  [source |-> source, cache |-> cache, supabaseState |-> supabaseState,
   memoryStore |-> memoryStore, remoteStore |-> remoteStore]

\* An empty Map.
EmptyStore == [k \in {} |-> Null]

\* A set that keeps the record a key already has.
storeSetOnce(store, key, record) ==
  [k \in DOMAIN store \cup {key} |-> IF k \in DOMAIN store THEN store[k] ELSE record]

\* store.set(key, record)
storeSet(store, key, record) ==
  [k \in DOMAIN store \cup {key} |-> IF k = key THEN record ELSE store[k]]

\* A delete that removes nothing.
storeKeep(store, key) == store

\* store.delete(key)
storeDelete(store, key) == [k \in DOMAIN store \ {key} |-> store[k]]

\* A record that forgets the content type it was stored with.
untypedBlobRecord(buf, contentType) ==
  [buffer |-> buf, contentType |-> <<>>, size |-> Len(buf)]

\* The record putBlobFromBuffer stores (uploadedAt and cacheControl left out).
MemoryBlobRecord(buf, contentType) ==
  [buffer |-> buf, contentType |-> contentType, size |-> Len(buf)]

\* res.ok
isOk(status) == 200 <= status /\ status <= 299

\* What an error message keeps of a response body: text.slice(0, 200).
ErrorPreviewChars == 200

\* An error message that keeps the whole response body.
wholeBody(text) == text

errorPreview(text) == sliceTo(text, ErrorPreviewChars)

\* The Error a supabase* helper throws for a response that is not ok, or the
\* one fetch rejects with (status 0: no response).
backendFailure(kind, status, body) ==
  IF status = 0 THEN Failure("network", "", 0, body)
  ELSE Failure(kind, "", status, errorPreview(body))

DefaultContentType == <<"o", "c", "t", "e", "t">>

\* The object supabaseDownload returns for an ok response that carries obj.
downloaded(obj) ==
  [buffer |-> obj.buffer,
   contentType |-> IF obj.contentType = <<>> THEN DefaultContentType
                   ELSE obj.contentType]

NoObject == [buffer |-> <<>>, contentType |-> <<>>]

\* What a call that made no request got for an answer.
NoResponse == [status |-> 0, body |-> <<>>]

\* The status a call that made no request has.
NoRequest == NoResponse.status

(***************************************************************************)
(* The storage backend. It is consistent: asked for an object, it answers  *)
(* 200 with the object when it holds it and 404 when it does not; any      *)
(* other status of resp is a failure it answers with whatever it holds.    *)
(***************************************************************************)

downloadStatus(store, key, resp) ==
  IF isOk(resp.status) \/ resp.status = 404
  THEN IF key \in DOMAIN store THEN 200 ELSE 404
  ELSE resp.status

\* A delete of an object the backend holds is not answered 404.
deleteStatus(store, key, resp) ==
  IF resp.status = 404 /\ key \in DOMAIN store THEN 200 ELSE resp.status

\* supabaseUpload: throws unless the response is ok.
supabaseUpload(resp) ==
  IF isOk(resp.status) THEN [ok |-> TRUE, error |-> NoError]
  ELSE [ok |-> FALSE, error |-> backendFailure("upload", resp.status, resp.body)]

\* supabaseDownload, answered status for an object the backend holds at key
\* (when it answers ok): null on 404, throws on any other status not ok.
supabaseDownload(store, key, status, body) ==
  IF status = 404 THEN [ok |-> TRUE, found |-> FALSE, object |-> NoObject, error |-> NoError]
  ELSE IF ~isOk(status)
  THEN [ok |-> FALSE, found |-> FALSE, object |-> NoObject,
        error |-> backendFailure("download", status, body)]
  ELSE [ok |-> TRUE, found |-> TRUE, object |-> downloaded(store[key]), error |-> NoError]

\* A delete that takes every status that is not ok for an error.
strictDelete(resp) ==
  IF ~isOk(resp.status)
  THEN [ok |-> FALSE, error |-> backendFailure("delete", resp.status, resp.body)]
  ELSE [ok |-> TRUE, error |-> NoError]

\* supabaseDelete: a 404 is not an error.
supabaseDelete(resp) ==
  IF ~isOk(resp.status) /\ resp.status # 404
  THEN [ok |-> FALSE, error |-> backendFailure("delete", resp.status, resp.body)]
  ELSE [ok |-> TRUE, error |-> NoError]

(***************************************************************************)
(* Operations of the facade, each a function of the world it is called in, *)
(* its arguments and the backend's answer (resp: status and body; status 0 *)
(* when fetch itself rejects), to its outcome and the world it leaves.     *)
(***************************************************************************)

\* Every call's first lookup fills an empty secrets cache.
enter(w) == [w EXCEPT !.cache = ensureCache(w.cache, w.source)]

\* What a call resolves before it dispatches: the mode (resolveMode) and, for
\* the calls that go to the backend, the credentials (ensureSupabase); remote
\* is the world once the credentials are cached.
resolved(w, mode, es) ==
  [world |-> w, mode |-> mode, es |-> es,
   remote |-> [w EXCEPT !.supabaseState = es.state]]

resolve(w) == resolved(w, resolveMode(w.cache), ensureSupabase(w.supabaseState, w.cache))

\* A call that threw.
Thrown(w, mode, status, error) ==
  [world |-> w, ok |-> FALSE, mode |-> mode, status |-> status, url |-> Null,
   found |-> FALSE, object |-> NoObject, result |-> FALSE, hasMore |-> FALSE,
   configured |-> FALSE, provider |-> "unknown", error |-> error]

\* A call that stopped before it dispatched: the mode did not resolve.
Unresolved(cx) == Thrown(cx.world, Null, NoRequest, cx.mode.error)

\* A remote call that stopped at ensureSupabase.
Unconfigured(cx) == Thrown(cx.world, cx.mode.value, NoRequest, cx.es.error)

\* What putBlobFromBuffer returns.
putReturned(cx, world, status, targetPath) ==
  [world |-> world, ok |-> TRUE, mode |-> cx.mode.value, status |-> status,
   url |-> buildProxyUrl(cx.world.cache, targetPath), target |-> targetPath,
   error |-> NoError]

putResolved(cx, targetPath, stored, resp, upload) ==
  IF ~cx.mode.ok THEN Unresolved(cx)
  ELSE IF cx.mode.value = ModeMemory
  THEN putReturned(cx, [cx.world EXCEPT !.memoryStore = storeSet(@, targetPath, stored)],
                   NoRequest, targetPath)
  ELSE IF ~cx.es.ok THEN Unconfigured(cx)
  ELSE IF ~upload.ok THEN Thrown(cx.remote, cx.mode.value, resp.status, upload.error)
  ELSE putReturned(cx, [cx.remote EXCEPT !.remoteStore = storeSet(@, targetPath, stored)],
                   resp.status, targetPath)

\* putBlobFromBuffer(path, buf, contentType, {addRandomSuffix}); token is the
\* random suffix drawn, Null without addRandomSuffix.
putBlobFromBuffer(w0, path, buf, contentType, token, resp) ==
  putResolved(resolve(enter(w0)),
              IF token = Null THEN normalizePath(path)
              ELSE applyRandomSuffix(normalizePath(path), token),
              MemoryBlobRecord(buf, contentType), resp, supabaseUpload(resp))

\* What readBlob returns: null (found FALSE) or an object.
readReturned(cx, world, status, found, object) ==
  [world |-> world, ok |-> TRUE, mode |-> cx.mode.value, status |-> status,
   found |-> found, object |-> object, error |-> NoError]

\* The remote branch of readBlob, the download answered with status.
readRemote(cx, normalizedPath, status, record) ==
  IF ~cx.es.ok THEN Unconfigured(cx)
  ELSE IF ~record.ok THEN Thrown(cx.remote, cx.mode.value, status, record.error)
  ELSE readReturned(cx, cx.remote, status, record.found, record.object)

readDownload(cx, normalizedPath, status, body) ==
  readRemote(cx, normalizedPath, status,
             supabaseDownload(cx.world.remoteStore, normalizedPath, status, body))

readResolved(cx, normalizedPath, resp) ==
  IF ~cx.mode.ok THEN Unresolved(cx)
  ELSE IF normalizedPath = URIError
  THEN Thrown(cx.world, cx.mode.value, NoRequest, Failure("uri-malformed", "", 0, <<>>))
  ELSE IF normalizedPath = Null \/ normalizedPath = <<>>
  THEN readReturned(cx, cx.world, NoRequest, FALSE, NoObject)
  ELSE IF cx.mode.value = ModeMemory
  THEN IF normalizedPath \in DOMAIN cx.world.memoryStore
       THEN readReturned(cx, cx.world, NoRequest, TRUE,
              [buffer |-> cx.world.memoryStore[normalizedPath].buffer,
               contentType |-> cx.world.memoryStore[normalizedPath].contentType])
       ELSE readReturned(cx, cx.world, NoRequest, FALSE, NoObject)
  ELSE readDownload(cx, normalizedPath,
                    downloadStatus(cx.world.remoteStore, normalizedPath, resp), resp.body)

readEntered(w, input, resp) ==
  readResolved(resolve(w), extractPathFromUrl(w.cache, input), resp)

\* readBlob(pathOrUrl)
readBlob(w0, input, resp) == readEntered(enter(w0), input, resp)

\* What deleteBlob returns.
deleteReturned(cx, world, status, result) ==
  [world |-> world, ok |-> TRUE, mode |-> cx.mode.value, status |-> status,
   result |-> result, error |-> NoError]

\* The remote branch of deleteBlob, the DELETE answered with status.
deleteRemote(cx, normalized, status, outcome) ==
  IF ~cx.es.ok THEN Unconfigured(cx)
  ELSE IF ~outcome.ok THEN Thrown(cx.remote, cx.mode.value, status, outcome.error)
  ELSE deleteReturned(cx,
         [cx.remote EXCEPT !.remoteStore =
            IF isOk(status) THEN storeDelete(@, normalized) ELSE @],
         status, TRUE)

deleteAnswered(cx, normalized, status, body) ==
  deleteRemote(cx, normalized, status, supabaseDelete([status |-> status, body |-> body]))

deleteResolved(cx, normalized, resp) ==
  IF ~cx.mode.ok THEN Unresolved(cx)
  ELSE IF cx.mode.value = ModeMemory
  THEN deleteReturned(cx, [cx.world EXCEPT !.memoryStore = storeDelete(@, normalized)],
                      NoRequest, normalized \in DOMAIN cx.world.memoryStore)
  ELSE deleteAnswered(cx, normalized,
                      deleteStatus(cx.world.remoteStore, normalized, resp), resp.body)

\* deleteBlob(path)
deleteBlob(w0, path, resp) == deleteResolved(resolve(enter(w0)), normalizePath(path), resp)

\* What listBlobs returns.
listReturned(cx, world, status, page) ==
  [world |-> world, ok |-> TRUE, mode |-> cx.mode.value, status |-> status,
   blobs |-> page.blobs, hasMore |-> page.hasMore, cursor |-> page.cursor,
   error |-> NoError]

listResolved(cx, prefix, limit, cursor, resp, names) ==
  IF ~cx.mode.ok THEN Unresolved(cx)
  ELSE IF cx.mode.value = ModeMemory
  THEN listReturned(cx, cx.world, NoRequest,
         listMemoryBlobs(cx.world.cache, cx.world.memoryStore, prefix, limit, cursor))
  ELSE IF ~cx.es.ok THEN Unconfigured(cx)
  ELSE IF ~isOk(resp.status)
  THEN Thrown(cx.remote, cx.mode.value, resp.status,
              backendFailure("list", resp.status, resp.body))
  ELSE listReturned(cx, cx.remote, resp.status,
         listSupabaseBlobs(cx.world.cache, names, prefix, limit, cursor))

\* listBlobs({prefix, limit, cursor}); names are the entries the backend's
\* list call answers with.
listBlobs(w0, prefix, limit, cursor, resp, names) ==
  listResolved(resolve(enter(w0)), prefix, effectiveLimit(limit), cursor, resp, names)

\* The keys of a page, in the page's order.
pathnames(blobs) == [i \in 1..Len(blobs) |-> blobs[i].pathname]

\* The limit deleteBlobsByPrefix lists the backend with.
PrefixDeleteLimit == 1000

\* The keys of the memory store deleteBlobsByPrefix removes.
prefixKeys(store, normalized) ==
  {k \in DOMAIN store : normalized = <<>> \/ startsWith(k, normalized)}

\* The store once each of keys was deleted from it.
storeDeleteAll(store, keys) == [k \in DOMAIN store \ keys |-> store[k]]

\* What deleteBlobsByPrefix returns: the number of deletes it made.
prefixReturned(cx, world, status, removed) ==
  [world |-> world, ok |-> TRUE, mode |-> cx.mode.value, status |-> status,
   removed |-> removed, error |-> NoError]

\* The keys the delete loop has deleted before its n-th DELETE.
deletedBefore(keys, n) == {keys[i] : i \in 1..(n - 1)}

\* The delete loop of deleteBlobsByPrefix over the listed keys: the backend
\* answers the failAt-th DELETE with failResp and every other one with ok.
prefixLooped(cx, keys, failAt, failResp) ==
  IF failAt \in 1..Len(keys) /\ ~supabaseDelete(failResp).ok
  THEN Thrown([cx.remote EXCEPT
                 !.remoteStore = storeDeleteAll(@, deletedBefore(keys, failAt))],
              cx.mode.value, failResp.status, supabaseDelete(failResp).error)
  ELSE prefixReturned(cx,
         [cx.remote EXCEPT
            !.remoteStore = storeDeleteAll(@, deletedBefore(keys, Len(keys) + 1))],
         failResp.status, Len(keys))

prefixResolved(cx, normalized, resp, names, failAt, failResp) ==
  IF ~cx.mode.ok THEN Unresolved(cx)
  ELSE IF cx.mode.value = ModeMemory
  THEN prefixReturned(cx,
         [cx.world EXCEPT !.memoryStore = storeDeleteAll(@, prefixKeys(@, normalized))],
         NoRequest, Cardinality(prefixKeys(cx.world.memoryStore, normalized)))
  ELSE IF ~cx.es.ok THEN Unconfigured(cx)
  ELSE IF ~isOk(resp.status)
  THEN Thrown(cx.remote, cx.mode.value, resp.status,
              backendFailure("list", resp.status, resp.body))
  ELSE prefixLooped(cx,
         pathnames(listSupabaseBlobs(cx.world.cache, names, normalized,
                                     PrefixDeleteLimit, <<>>).blobs),
         failAt, failResp)

\* deleteBlobsByPrefix(prefix); resp and names are the backend's answer to
\* the list call, failAt and failResp its answers to the DELETEs.
deleteBlobsByPrefix(w0, prefix, resp, names, failAt, failResp) ==
  prefixResolved(resolve(enter(w0)), normalizePath(prefix), resp, names, failAt,
                 failResp)

clearEntered(w) == [world |-> w, ok |-> w.cache.loaded, status |-> NoRequest]

\* clearFallbackBlobs()
clearFallbackBlobs(w0) == clearEntered(enter([w0 EXCEPT !.memoryStore = EmptyStore]))

\* What getBlobEnvironment returns.
report(world, provider, configured, bucket, error) ==
  [world |-> world, ok |-> TRUE, status |-> NoRequest, provider |-> provider,
   configured |-> configured, bucket |-> bucket, error |-> error]

environmentResolved(cx) ==
  IF ~cx.world.cache.loaded THEN Unresolved(cx)
  ELSE IF ~cx.mode.ok THEN report(cx.world, "unknown", FALSE, Null, cx.mode.error)
  ELSE IF cx.mode.value = ModeMemory THEN report(cx.world, "memory", TRUE, Null, NoError)
  ELSE IF ~cx.es.ok THEN report(cx.world, "unknown", FALSE, Null, cx.es.error)
  ELSE report(cx.remote, "supabase", TRUE, cx.es.state.bucket, NoError)

\* getBlobEnvironment(): the report, or ok FALSE when it throws (the catch
\* block logs, the log reads the secrets, and with an unreadable source that
\* throws again).
getBlobEnvironment(w0) == environmentResolved(resolve(enter(w0)))

\* What blobHealth returns: the report {ok, mode, reason, bucket} (ok is
\* healthy here), and whether it made its request.
healthReport(world, requested, status, healthy, mode, reason, bucket) ==
  [world |-> world, ok |-> TRUE, requested |-> requested, status |-> status,
   healthy |-> healthy, mode |-> mode, reason |-> reason, bucket |-> bucket]

\* The catch block of blobHealth: it logs the error, the log reads the
\* secrets, and with secrets that cannot be loaded that throws; otherwise it
\* reports the error's message, with mode 'supabase'.
healthCaught(world, requested, status, error) ==
  IF ~world.cache.loaded THEN Thrown(world, Null, status, error)
  ELSE healthReport(world, requested, status, FALSE, ModeSupabase, error, Null)

\* The reason of a report on a response that is not ok:
\* text || `status ${res.status}`.
responseReason(resp) ==
  IF resp.body # <<>> THEN Failure("response", "", 0, resp.body)
  ELSE Failure("status", "", resp.status, <<>>)

\* reason: 'memory storage active'
MemoryActive == Failure("memory-active", "", 0, <<>>)

healthResolved(cx, resp) ==
  IF ~cx.mode.ok THEN healthCaught(cx.world, FALSE, NoRequest, cx.mode.error)
  ELSE IF cx.mode.value = ModeMemory
  THEN healthReport(cx.world, FALSE, NoRequest, TRUE, ModeMemory, MemoryActive, Null)
  ELSE IF ~cx.es.ok THEN healthCaught(cx.world, FALSE, NoRequest, cx.es.error)
  ELSE IF resp.status = 0
  THEN healthCaught(cx.remote, TRUE, resp.status,
                    backendFailure("health", resp.status, resp.body))
  ELSE IF ~isOk(resp.status)
  THEN healthReport(cx.remote, TRUE, resp.status, FALSE, cx.mode.value,
                    responseReason(resp), cx.es.state.bucket)
  ELSE healthReport(cx.remote, TRUE, resp.status, TRUE, cx.mode.value, NoError,
                    cx.es.state.bucket)

\* blobHealth(); resp is the answer to its list call of limit 1, status 0
\* when fetch rejects.
blobHealth(w0, resp) == healthResolved(resolve(enter(w0)), resp)

(***************************************************************************)
(* A call in flight. A remote call runs up to its fetch in one piece: it    *)
(* resolves the mode and the credentials, which it keeps in local variables *)
(* (mode, state), and then awaits the answer; what follows the await runs   *)
(* when the answer arrives, in the world as it is then.                     *)
(***************************************************************************)

\* What a call awaiting an answer holds: the mode and credentials it
\* resolved at its start, its key, and for deleteBlobsByPrefix the listed
\* keys still to delete and the count of deletes made.
flight(op, phase, cx, key, stored) ==
  [op |-> op, phase |-> phase, mode |-> cx.mode.value, state |-> cx.es.state,
   key |-> key, stored |-> stored, keys |-> <<>>, removed |-> 0]

\* A call that resolves its mode and credentials again when its answer
\* arrives.
restarted(w, f) == resolve(enter(w))

\* The context of the call in flight f when an answer arrives in world w:
\* its mode and credentials are those of its start; the secrets it looks up
\* from here on are those of w.
resumed(w, f) ==
  resolved(enter(w), [ok |-> TRUE, value |-> f.mode], [ok |-> TRUE, state |-> f.state])

\* After its await a call logs or builds its URL, which reads the secrets:
\* with secrets that cannot be loaded then, it throws.
lateThrow(r) ==
  IF r.world.cache.loaded THEN r
  ELSE Thrown(r.world, r.mode, r.status, Failure("secrets-unreadable", "", 0, <<>>))

\* The outcome of the call in flight f of put, read, delete or list, answered
\* resp (names for a list).
answered(f, cx, resp, names) ==
  lateThrow(CASE f.op = "put" ->
                   putResolved(cx, f.key, f.stored, resp, supabaseUpload(resp))
              [] f.op = "read" -> readResolved(cx, f.key, resp)
              [] f.op = "delete" -> deleteResolved(cx, f.key, resp)
              [] f.op = "list" ->
                   listResolved(cx, f.key, DefaultListLimit, <<>>, resp, names))

\* The list call of deleteBlobsByPrefix, answered.
prefixListed(f, cx, resp, names) ==
  lateThrow(listResolved(cx, f.key, PrefixDeleteLimit, <<>>, resp, names))

\* The world once the backend has answered a DELETE of key with status.
afterDelete(w, key, status) ==
  [w EXCEPT !.remoteStore = IF isOk(status) THEN storeDelete(@, key) ELSE @]

\* The outcome of deleteBlobsByPrefix when its last DELETE was answered, or
\* any DELETE was answered with a failure.
prefixFinished(f, cx, w, status, outcome) ==
  IF ~outcome.ok THEN Thrown(enter(w), f.mode, status, outcome.error)
  ELSE lateThrow(prefixReturned(cx, enter(w), status, f.removed + 1))

\* A refresh that keeps the cache.
keepSecretsCache(w) == w

\* refreshSecretsCache()
refreshSecretsCache(w) == [w EXCEPT !.cache = NoCache]

(***************************************************************************)
(* Steps                                                                   *)
(***************************************************************************)

\* What a call that returned r shows its caller.
urlValue(r) == "url"

readValue(r) == IF r.found THEN "object" ELSE "null"

deleteValue(r) == IF r.result THEN "true" ELSE "false"

listValue(r) == IF r.hasMore THEN "more" ELSE "end"

voidValue(r) == "void"

environmentValue(r) == IF r.configured THEN r.provider ELSE "unconfigured"

healthValue(r) == IF r.healthy THEN "healthy" ELSE "unhealthy"

removedValue(r) == IF r.removed > 0 THEN "some" ELSE "none"

\* What operation op shows its caller when it returned r.
returnedValue(op, r) ==
  CASE op = "put" -> urlValue(r)
    [] op = "read" -> readValue(r)
    [] op = "delete" -> deleteValue(r)
    [] op = "list" -> listValue(r)
    [] op = "clear" -> voidValue(r)
    [] op = "environment" -> environmentValue(r)
    [] op = "health" -> healthValue(r)
    [] op = "delete-prefix" -> removedValue(r)

\* The step of a call of operation op with outcome r.
Commit(op, r) ==
  /\ source' = r.world.source
  /\ cache' = r.world.cache
  /\ supabaseState' = r.world.supabaseState
  /\ memoryStore' = r.world.memoryStore
  /\ remoteStore' = r.world.remoteStore
  /\ last' = [op |-> op, ok |-> r.ok, status |-> r.status,
               returned |-> IF r.ok THEN returnedValue(op, r) ELSE "thrown"]

PutBlobFromBuffer(path, buf, contentType, token, resp) ==
  /\ Commit("put", putBlobFromBuffer(World, path, buf, contentType, token, resp))
  /\ UNCHANGED <<listing, callers>>

ReadBlob(input, resp) ==
  /\ Commit("read", readBlob(World, input, resp))
  /\ UNCHANGED <<listing, callers>>

DeleteBlob(path, resp) ==
  /\ Commit("delete", deleteBlob(World, path, resp))
  /\ UNCHANGED <<listing, callers>>

\* A caller that has asked for no page.
NoListing ==
  [pages |-> 0, prefix |-> <<>>, limit |-> 1, cursor |-> <<>>, hasMore |-> FALSE,
   keys |-> <<>>]

\* No call is awaiting the backend.
NoFlight == [op |-> "none"]

\* No caller has read by URL.
NoAsk == [input |-> <<>>, key |-> <<>>, returned |-> "none"]

\* No request handler has made a call: initial is the memory store the
\* handlers found, running the call that holds the thread (0: none).
NoThreads == [initial |-> EmptyStore, running |-> 0, calls |-> <<>>]

\* The process start: no call is awaiting the backend, no put has returned
\* a suffixed key, no caller has read by URL, no handler has made a call.
Idle ==
  /\ inflight = NoFlight
  /\ issued = <<>>
  /\ now = 1
  /\ asked = NoAsk
  /\ threads = NoThreads

\* The caller's record once page r came back for its request.
listed(prefix, limit, r, before) ==
  [pages |-> before.pages + 1, prefix |-> prefix, limit |-> limit,
   cursor |-> IF r.cursor = Null THEN <<>> ELSE r.cursor,
   hasMore |-> r.hasMore, keys |-> before.keys \o pathnames(r.blobs)]

\* The step of a listBlobs call with outcome r, made by a caller whose
\* record is before and stays failed when the call throws.
CommitPage(prefix, limit, r, before, failed) ==
  /\ Commit("list", r)
  /\ listing' = IF r.ok THEN listed(prefix, limit, r, before) ELSE failed
  /\ UNCHANGED callers

\* listBlobs({prefix, limit}) without a cursor: the first page.
ListFirstPage(prefix, limit, resp, names) ==
  CommitPage(prefix, limit, listBlobs(World, prefix, limit, <<>>, resp, names),
             NoListing, NoListing)

\* listBlobs with the cursor the page before returned.
ListNextPage(resp, names) ==
  /\ listing.pages > 0 /\ listing.hasMore
  /\ CommitPage(listing.prefix, listing.limit,
                listBlobs(World, listing.prefix, listing.limit, listing.cursor,
                          resp, names),
                listing, listing)

\* The caller stops paging.
ListDone ==
  /\ listing.pages > 0
  /\ listing' = NoListing
  /\ UNCHANGED <<source, cache, supabaseState, memoryStore, remoteStore, last,
                 callers>>

ClearFallbackBlobs ==
  /\ Commit("clear", clearFallbackBlobs(World))
  /\ UNCHANGED <<listing, callers>>

GetBlobEnvironment ==
  /\ Commit("environment", getBlobEnvironment(World))
  /\ UNCHANGED <<listing, callers>>

BlobHealth(resp) ==
  /\ Commit("health", blobHealth(World, resp))
  /\ UNCHANGED <<listing, callers>>

DeleteBlobsByPrefix(prefix, resp, names, failAt, failResp) ==
  /\ Commit("delete-prefix",
            deleteBlobsByPrefix(World, prefix, resp, names, failAt, failResp))
  /\ UNCHANGED <<listing, callers>>

\* A remote call starts: it resolves its mode and credentials and sends its
\* request. (A call that stops before its fetch, and every call in memory
\* mode, runs in one piece: the steps above.)
Begin(op, phase, key, stored) ==
  /\ inflight = NoFlight
  /\ resolve(enter(World)).mode.ok
  /\ resolve(enter(World)).mode.value = ModeSupabase
  /\ resolve(enter(World)).es.ok
  /\ cache' = enter(World).cache
  /\ supabaseState' = resolve(enter(World)).es.state
  /\ inflight' = flight(op, phase, resolve(enter(World)), key, stored)
  /\ UNCHANGED <<source, memoryStore, remoteStore, last, listing, issued, now, asked, threads>>

\* The answer to a put, read, delete or list in flight arrives.
Answer(resp, names) ==
  /\ inflight.op \in {"put", "read", "delete", "list"}
  /\ Commit(inflight.op, answered(inflight, resumed(World, inflight), resp, names))
  /\ inflight' = NoFlight
  /\ UNCHANGED <<listing, issued, now, asked, threads>>

\* deleteBlobsByPrefix goes on after its list call returned r: it ends when
\* the list threw or is empty, and sends its first DELETE otherwise.
PrefixContinue(f, cx, r) ==
  IF r.ok /\ r.blobs # <<>>
  THEN /\ cache' = r.world.cache
       /\ inflight' = [f EXCEPT !.phase = "delete", !.keys = pathnames(r.blobs)]
       /\ UNCHANGED <<source, supabaseState, memoryStore, remoteStore, last,
                      listing, issued, now, asked, threads>>
  ELSE /\ Commit("delete-prefix",
                 IF r.ok THEN prefixReturned(cx, r.world, r.status, 0) ELSE r)
       /\ inflight' = NoFlight
       /\ UNCHANGED <<listing, issued, now, asked, threads>>

\* The answer to the list call of a deleteBlobsByPrefix in flight arrives.
PrefixListed(resp, names) ==
  /\ inflight.op = "delete-prefix" /\ inflight.phase = "list"
  /\ PrefixContinue(inflight, resumed(World, inflight),
                    prefixListed(inflight, resumed(World, inflight), resp, names))

\* deleteBlobsByPrefix goes on after a DELETE of its next key was answered
\* with status: it sends the next DELETE, or ends.
PrefixStep(f, status, outcome) ==
  IF outcome.ok /\ Len(f.keys) > 1
  THEN /\ remoteStore' = afterDelete(World, Head(f.keys), status).remoteStore
       /\ inflight' = [f EXCEPT !.keys = Tail(@), !.removed = @ + 1]
       /\ UNCHANGED <<source, cache, supabaseState, memoryStore, last, listing,
                      issued, now, asked, threads>>
  ELSE /\ Commit("delete-prefix",
                 prefixFinished(f, resumed(World, f),
                                afterDelete(World, Head(f.keys), status),
                                status, outcome))
       /\ inflight' = NoFlight
       /\ UNCHANGED <<listing, issued, now, asked, threads>>

\* The answer to a DELETE of a deleteBlobsByPrefix in flight arrives.
PrefixDeleted(resp) ==
  /\ inflight.op = "delete-prefix" /\ inflight.phase = "delete"
  /\ PrefixStep(inflight, deleteStatus(remoteStore, Head(inflight.keys), resp),
                supabaseDelete([status |-> deleteStatus(remoteStore,
                                                        Head(inflight.keys), resp),
                                body |-> resp.body]))

RefreshSecretsCache ==
  /\ cache' = refreshSecretsCache(World).cache
  /\ cache # NoCache
  /\ UNCHANGED <<source, supabaseState, memoryStore, remoteStore, last, listing,
                 callers>>

\* The operator edits the configuration source.
SetSource(src) ==
  /\ source' = src
  /\ source # src
  /\ UNCHANGED <<cache, supabaseState, memoryStore, remoteStore, last, listing,
                 callers>>

(***************************************************************************)
(* Inputs                                                                  *)
(***************************************************************************)

SupabaseUrl == <<"d", "b", "/">>

ServiceRoleKey == <<"s", "e", "c">>

BucketA == <<"a", "b">>

PublicBase == <<"h", "t", "t", "p", ":", "/", "/", "h", "/">>

\* A readable configuration source with every credential set.
ConfiguredSource(mode, override) ==
  [readable |-> TRUE,
   values |-> [k \in SecretKeys |->
                 CASE k = "STORAGE_MODE" -> mode
                   [] k = "SUPABASE_URL" -> SupabaseUrl
                   [] k = "SUPABASE_SERVICE_ROLE_KEY" -> ServiceRoleKey
                   [] k = "SUPABASE_STORAGE_BUCKET" -> BucketA
                   [] k = "PUBLIC_STORAGE_BASE_URL" -> override]]

MemorySource == ConfiguredSource(ModeMemory, Null)

\* Supabase behind a public base URL.
SupabaseSource == ConfiguredSource(ModeSupabase, PublicBase)

KeyA == <<"/", "a">>

KeyPA == <<"p", "/", "a">>

KeyData == <<"d", "a", "t", "a", ":", "a">>

KeyProxy == <<"/", "a", "p", "i", "/", "b", "l", "o", "b", "/", "a">>

KeyHttp == <<"h", "t", "t", "p", ":", "/", "/", "h", "/", "a">>

\* A proxy path whose escape is malformed.
KeyMalformed == <<"/", "a", "p", "i", "/", "b", "l", "o", "b", "/", "%">>

\* The paths the callers put and delete.
Paths == {<<>>, KeyA, KeyPA, KeyData, KeyProxy, KeyHttp}

\* What the callers read: a path or a URL.
ReadInputs == Paths \cup {KeyMalformed}

TextPlain == <<"t", "x", "t">>

\* The buffers and content types a put can be given.
Blobs ==
  {[buffer |-> <<>>, contentType |-> TextPlain],
   [buffer |-> <<1, 2>>, contentType |-> <<>>]}

\* The object the callers' puts store.
StoredBlob == [buffer |-> <<1, 2>>, contentType |-> TextPlain]

\* A response body one character longer than an error message keeps.
LongBody ==
  [i \in 1..(ErrorPreviewChars + 1) |-> IF i <= ErrorPreviewChars THEN "x" ELSE "e"]

Responses ==
  {[status |-> 200, body |-> <<>>], [status |-> 204, body |-> <<>>],
   [status |-> 404, body |-> <<"n", "o">>], [status |-> 500, body |-> LongBody]}

\* The most objects the two stores hold together.
MaxObjects == 2

\* Whether a call made in world w goes to the storage backend: the mode
\* resolves to supabase and the credentials are there.
CallsBackend(w) ==
  LET c == ensureCache(w.cache, w.source)
      mode == resolveMode(c)
  IN mode.ok /\ mode.value = ModeSupabase /\ ensureSupabase(w.supabaseState, c).ok

\* The answers a call made now can get: none when no request is made.
Answers == IF CallsBackend(World) THEN Responses ELSE {NoResponse}

ObjectCount(w) == Cardinality(DOMAIN w.memoryStore) + Cardinality(DOMAIN w.remoteStore)

(***************************************************************************)
(* The store-level specification: each behaviour runs in one mode, and in  *)
(* supabase mode the memory store may hold what an earlier memory-mode     *)
(* deployment of the process left in it.                                   *)
(***************************************************************************)

Leftover == storeSet(EmptyStore, KeyPA, MemoryBlobRecord(<<1, 2>>, TextPlain))

NoCall == [op |-> "none", ok |-> TRUE, status |-> NoRequest, returned |-> "void"]

Init ==
  /\ source \in {MemorySource, SupabaseSource}
  /\ cache = NoCache
  /\ supabaseState = NoSupabase
  /\ memoryStore \in IF source = MemorySource THEN {EmptyStore}
                     ELSE {EmptyStore, Leftover}
  /\ remoteStore = EmptyStore
  /\ last = NoCall
  /\ listing = NoListing
  /\ Idle

Put ==
  \E path \in Paths, resp \in Answers :
    /\ ObjectCount(World) < MaxObjects
    /\ PutBlobFromBuffer(path, StoredBlob.buffer, StoredBlob.contentType, Null, resp)

Read == \E input \in ReadInputs, resp \in Answers : ReadBlob(input, resp)

Delete == \E path \in Paths, resp \in Answers : DeleteBlob(path, resp)

Next ==
  \/ Put
  \/ Read
  \/ Delete
  \/ ClearFallbackBlobs
  \/ RefreshSecretsCache

Spec == Init /\ [][Next]_vars

(***************************************************************************)
(* Properties of the store-level specification                             *)
(***************************************************************************)

\* The answers with which the backend serves a download: every status but a
\* server error.
Served == {resp \in Answers : resp.status < 500}

\* readBlob(k) right after putBlobFromBuffer(k, blob) returned, in this world.
readAfterPut(k, blob, up, down) ==
  readBlob(putBlobFromBuffer(World, k, blob.buffer, blob.contentType, Null, up).world,
           k, down)

putReturns(k, blob, up) ==
  putBlobFromBuffer(World, k, blob.buffer, blob.contentType, Null, up).ok

\* C1 as stated: in every reachable world and for every key, the empty key
\* and keys that begin with a slash, "data:", "http:" or the proxy prefix
\* included, a read of the key right after a put of it returns an object with
\* the buffer and the content type that were put.
C1_RoundTripEveryKey ==
  \A k \in Paths, blob \in Blobs, up \in Answers, down \in Served :
    putReturns(k, blob, up) =>
      LET r == readAfterPut(k, blob, up, down)
      IN r.ok /\ r.found /\ r.object.buffer = blob.buffer
         /\ r.object.contentType = blob.contentType

\* A key that readBlob takes for a key: not empty once its leading slashes
\* are gone, and not begun by "data:", the proxy prefix or an http(s) scheme.
isPlainKey(k) ==
  /\ normalizePath(k) # <<>>
  /\ ~startsWith(k, DataScheme)
  /\ ~startsWith(k, BLOB_PROXY_PREFIX)
  /\ ~isHttpUrl(k)

\* The content type a read gives back for one that was put: a download turns
\* an empty one into the default.
typeReadBack(w, contentType) ==
  IF CallsBackend(w) /\ contentType = <<>> THEN DefaultContentType ELSE contentType

\* C1, amended: in every reachable world and for every plain key, a read of
\* the key right after a put of it returns an object with the buffer that was
\* put and with its content type, the default type standing for an empty one
\* in remote mode.
C1_RoundTripPlainKeys ==
  \A k \in Paths, blob \in Blobs, up \in Answers, down \in Served :
    (isPlainKey(k) /\ putReturns(k, blob, up)) =>
      LET r == readAfterPut(k, blob, up, down)
      IN r.ok /\ r.found /\ r.object.buffer = blob.buffer
         /\ r.object.contentType = typeReadBack(World, blob.contentType)

\* C1's case: a read has returned an object while every stored key is plain,
\* in both modes at once over the behaviours (a download answered 200, or a
\* memory read).
C1_Witness ==
  /\ last.op = "read" /\ last.returned = "object"
  /\ \E k \in DOMAIN remoteStore \cup DOMAIN memoryStore : isPlainKey(k)
  /\ last.status = 200

\* C7: a delete of a key that is not stored returns false in memory mode and
\* leaves the store as it is; in remote mode it returns true when the DELETE
\* is answered 404 (or ok) and throws with the status on any other answer;
\* and a second delete of the key leaves the world the first one left.
C7_IdempotentDelete ==
  \A k \in Paths, resp \in Answers, again \in Answers :
    LET key == normalizePath(k)
        d == deleteBlob(World, k, resp)
        dd == deleteBlob(d.world, k, again)
    IN /\ (~CallsBackend(World) /\ key \notin DOMAIN memoryStore) =>
            d.ok /\ ~d.result /\ d.world.memoryStore = memoryStore
       /\ (CallsBackend(World) /\ key \notin DOMAIN remoteStore) =>
            /\ (resp.status = 404 \/ isOk(resp.status)) =>
                 d.ok /\ d.result /\ d.world.remoteStore = remoteStore
            /\ (resp.status # 404 /\ ~isOk(resp.status)) =>
                 ~d.ok /\ d.error.status = resp.status
       /\ (d.ok /\ dd.ok) =>
            /\ dd.world.memoryStore = d.world.memoryStore
            /\ dd.world.remoteStore = d.world.remoteStore

\* C7's case: a DELETE was answered 404 and deleteBlob returned true, with
\* other objects stored.
C7_Witness ==
  /\ last.op = "delete" /\ last.status = 404 /\ last.returned = "true"
  /\ DOMAIN remoteStore # {}

\* C8: in remote mode a put whose upload is answered with a status that is
\* not ok throws an error with that status and the first 200 characters of
\* the body at most, returns no URL and leaves both stores as they are.
C8_UploadFailure ==
  \A k \in Paths, blob \in Blobs, resp \in Answers :
    (CallsBackend(World) /\ ~isOk(resp.status)) =>
      LET p == putBlobFromBuffer(World, k, blob.buffer, blob.contentType, Null, resp)
      IN /\ ~p.ok
         /\ p.error.status = resp.status
         /\ Len(p.error.text) <= 200
         /\ p.error.text = SubSeq(resp.body, 1, Len(p.error.text))
         /\ p.url = Null
         /\ p.world.memoryStore = memoryStore
         /\ p.world.remoteStore = remoteStore

\* C8's case: an upload was answered 500 and the put threw, while the memory
\* store holds an object.
C8_Witness ==
  /\ last.op = "put" /\ last.returned = "thrown" /\ last.status = 500
  /\ DOMAIN memoryStore # {}

\* C9 as stated: in remote mode a read returns null, and does not throw,
\* exactly when its input resolves to no key or the download is answered 404;
\* it returns the downloaded object when the download is answered ok, and
\* throws with the status on any other answer.
C9_RemoteRead ==
  \A input \in ReadInputs, resp \in Answers :
    CallsBackend(World) =>
      LET r == readBlob(World, input, resp)
          key == extractPathFromUrl(ensureCache(cache, source), input)
          isKey == key \notin {Null, URIError, <<>>}
          status == IF isKey THEN downloadStatus(remoteStore, key, resp)
                    ELSE NoRequest
      IN /\ (r.ok /\ ~r.found) <=> (~isKey \/ status = 404)
         /\ (isKey /\ isOk(status)) =>
              r.ok /\ r.found /\ r.object = downloaded(remoteStore[key])
         /\ (isKey /\ ~isOk(status) /\ status # 404) =>
              ~r.ok /\ r.error.status = status

\* C9's failing case: a read in remote mode threw without a request made.
C9_Witness ==
  /\ CallsBackend(World)
  /\ last.op = "read" /\ last.returned = "thrown" /\ last.status = NoRequest

(***************************************************************************)
(* The listing specification: callers store and delete a few keys, among   *)
(* them keys of both letter cases, and page through listBlobs while the    *)
(* stored set stands still.                                                *)
(***************************************************************************)

KeyLowerA == <<"a">>

KeyUpperB == <<"B">>

KeyLowerC == <<"c">>

ListKeys == {KeyLowerA, KeyUpperB, KeyLowerC, KeyPA}

PrefixP == <<"p", "/">>

\* A prefix no pathname that listSupabaseBlobs builds begins with.
PrefixPSlash == <<"p", "/", "/">>

ListPrefixes == {<<>>, PrefixP}

PageLimits == {1, 2}

\* The raw entries a list call of the backend answers with, in its order.
Listings ==
  {<<>>, <<KeyLowerA>>, <<KeyUpperB, KeyLowerA, KeyLowerC>>, <<KeyLowerA, KeyLowerA>>}

\* The most objects the stores hold together in the listing specification.
MaxListed == 3

\* The most pages a caller asks for.
MaxPages == 3

Ok == [status |-> 200, body |-> <<>>]

ListAnswers ==
  IF CallsBackend(World) THEN {Ok, [status |-> 500, body |-> <<"n", "o">>]}
  ELSE {NoResponse}

\* The raw entries a list call made now can be answered with.
ListingsNow == IF CallsBackend(World) THEN Listings ELSE {<<>>}

InitList == Init /\ memoryStore = EmptyStore

StoreKey ==
  \E k \in ListKeys, resp \in ListAnswers :
    /\ listing.pages = 0
    /\ ObjectCount(World) < MaxListed
    /\ PutBlobFromBuffer(k, StoredBlob.buffer, StoredBlob.contentType, Null, resp)

ReadKey ==
  \E k \in ListKeys, resp \in ListAnswers :
    /\ listing.pages = 0
    /\ ReadBlob(k, resp)

DeleteKey ==
  \E k \in ListKeys, resp \in ListAnswers :
    /\ listing.pages = 0
    /\ DeleteBlob(k, resp)

FirstPage ==
  \E prefix \in ListPrefixes, limit \in PageLimits, resp \in ListAnswers,
     names \in ListingsNow :
    ListFirstPage(prefix, limit, resp, names)

NextPage ==
  \E resp \in ListAnswers, names \in ListingsNow :
    /\ listing.pages < MaxPages
    /\ ListNextPage(resp, names)

NextList ==
  \/ StoreKey
  \/ ReadKey
  \/ DeleteKey
  \/ FirstPage
  \/ NextPage
  \/ ListDone

SpecList == InitList /\ [][NextList]_vars

(***************************************************************************)
(* Properties of the listing specification                                 *)
(***************************************************************************)

\* Whether the calls made now are served by the memory store.
inMemoryMode == resolveMode(ensureCache(cache, source)) = [ok |-> TRUE, value |-> ModeMemory]

\* The stored keys a listing of prefix is about.
matching(prefix) ==
  {k \in DOMAIN memoryStore : matchesPrefix(k, normalizePath(prefix))}

\* The set of the elements of a sequence.
Range(seq) == {seq[i] : i \in 1..Len(seq)}

\* C2 as stated: in memory mode the pages a caller has got, one after the
\* other with the cursor of the page before, hold no key twice and are in
\* ascending key order, and once a page says hasMore false they hold exactly
\* the stored keys that match the prefix.
C2_PaginationExhaustive ==
  (inMemoryMode /\ listing.pages > 0) =>
    /\ \A i, j \in 1..Len(listing.keys) :
         i < j => localeCompare(listing.keys[i], listing.keys[j]) < 0
    /\ ~listing.hasMore => Range(listing.keys) = matching(listing.prefix)

\* C2's failing case: the paging ended, and a stored key that matches the
\* prefix is on no page.
C2_Witness ==
  /\ inMemoryMode /\ listing.pages > 1 /\ ~listing.hasMore
  /\ matching(listing.prefix) \ Range(listing.keys) # {}

\* b comes after a in the order named: by code units, or by locale.
comesAfter(order, b, a) ==
  IF order = "code units" THEN CodeUnitGreater(b, a) ELSE localeCompare(b, a) > 0

\* C3 as stated: there is one ordering of keys under which, for every
\* prefix, limit and cursor, every entry of the page listBlobs returns for the
\* cursor comes after the cursor and the page does not descend.
C3_NeverReReturned ==
  \E order \in {"code units", "locale"} :
    \A prefix \in ListPrefixes, limit \in PageLimits, cursor \in ListKeys,
       names \in ListingsNow :
      LET keys == pathnames(listBlobs(World, prefix, limit, cursor, Ok, names).blobs)
      IN /\ \A i \in 1..Len(keys) : comesAfter(order, keys[i], cursor)
         /\ \A i, j \in 1..Len(keys) : i < j => ~comesAfter(order, keys[i], keys[j])

\* C3's failing case: in memory mode the page a caller got for a cursor
\* holds keys it had got before.
C3_Witness ==
  /\ inMemoryMode /\ listing.pages > 1
  /\ \E i, j \in 1..Len(listing.keys) : i < j /\ listing.keys[i] = listing.keys[j]

\* The limits a caller passes: none (0), a negative one, and page sizes.
Limits == {-1, 0, 1, 2}

\* The cursors a caller passes: none (empty), or a key.
Cursors == {<<>>} \cup ListKeys

\* The listings of the backend that name no entry twice.
SetListings == {names \in ListingsNow : Cardinality(Range(names)) = Len(names)}

\* The candidates of a list call: the keys that match the prefix, stored in
\* memory or built from the entries the backend named.
candidates(prefix, names) ==
  IF inMemoryMode THEN matching(prefix)
  ELSE {k \in {supabasePathname(normalizePath(prefix), names[i]) : i \in 1..Len(names)} :
          keepListed(k, normalizePath(prefix))}

\* The limit in force for the limit a caller passes.
limitInForce(limit) == IF limit = 0 THEN 100 ELSE IF limit < 1 THEN 1 ELSE limit

\* C4: for every prefix, limit, cursor and candidate set, the page listBlobs
\* returns has at most as many entries as the limit in force (the limit
\* passed, 1 for a smaller one, 100 for none), hasMore is true exactly when a
\* candidate sorts after the last entry of the page, and the cursor returned
\* is the key of that entry when hasMore is true and absent when it is false.
C4_PageShape ==
  \A prefix \in ListPrefixes, limit \in Limits, cursor \in Cursors,
     names \in SetListings :
    LET r == listBlobs(World, prefix, limit, cursor, Ok, names)
        keys == pathnames(r.blobs)
    IN /\ r.ok
       /\ Len(keys) <= limitInForce(limit)
       /\ r.hasMore <=>
            /\ keys # <<>>
            /\ \E k \in candidates(prefix, names) :
                 localeCompare(k, keys[Len(keys)]) > 0
       /\ r.hasMore => r.cursor = keys[Len(keys)]
       /\ ~r.hasMore => r.cursor = Null

\* C4's case: a caller got a full page with hasMore true from a store that
\* holds more keys than the page.
C4_Witness ==
  /\ last.op = "list" /\ last.returned = "more"
  /\ Len(listing.keys) = listing.limit
  /\ Cardinality(matching(listing.prefix)) > listing.limit

\* C5: in both modes, for every prefix, limit and cursor and whatever
\* entries the backend names, every entry listBlobs returns has a pathname
\* that begins with the normalized prefix.
C5_PrefixFiltering ==
  \A prefix \in ListPrefixes \cup {PrefixPSlash}, limit \in Limits,
     cursor \in {<<>>, KeyLowerA, KeyUpperB}, names \in ListingsNow :
    LET r == listBlobs(World, prefix, limit, cursor, Ok, names)
    IN \A i \in 1..Len(r.blobs) :
         startsWith(r.blobs[i].pathname, normalizePath(prefix))

\* C5's case: a listing of prefix p/ returned the key under it and left out
\* a stored key that is not under it.
C5_Witness ==
  /\ last.op = "list" /\ last.ok
  /\ listing.prefix = PrefixP /\ Range(listing.keys) = {KeyPA}
  /\ KeyLowerA \in DOMAIN memoryStore

\* The keys of a lifecycle: the paths callers use and the keys of listings.
LifecycleKeys == Paths \cup ListKeys

\* The prefixes P a key P + name has.
prefixesOf(k) == {SubSeq(k, 1, n) : n \in 0..Len(k)}

\* The lifecycle of key k = P + name in this world, a memory store with no
\* key under P: put, list under P, read, delete, read.
lifecycle(k, P) ==
  LET p == putBlobFromBuffer(World, k, StoredBlob.buffer, StoredBlob.contentType,
                             Null, NoResponse)
      l == listBlobs(p.world, P, 0, <<>>, NoResponse, <<>>)
      r == readBlob(p.world, k, NoResponse)
      d == deleteBlob(p.world, k, NoResponse)
      rr == readBlob(d.world, k, NoResponse)
  IN /\ p.ok
     /\ l.ok /\ pathnames(l.blobs) = <<normalizePath(k)>>
     /\ r.ok /\ r.found /\ r.object.buffer = StoredBlob.buffer
     /\ d.ok /\ d.result
     /\ rr.ok /\ ~rr.found

\* C6 as stated: in memory mode, for every key P + name and a store with no
\* key under P, the put, list, read, delete and read of the key go as the
\* scenario says.
C6_LifecycleEveryKey ==
  \A k \in LifecycleKeys : \A P \in prefixesOf(k) :
    (inMemoryMode /\ matching(P) = {}) => lifecycle(k, P)

\* A read of a plain key that is not stored returns null.
absentReadsNull ==
  \A k \in LifecycleKeys :
    (inMemoryMode /\ isPlainKey(k) /\ normalizePath(k) \notin DOMAIN memoryStore) =>
      LET r == readBlob(World, k, NoResponse) IN r.ok /\ ~r.found

\* A key comes into the memory store by a put only.
OnlyPutStores ==
  (DOMAIN memoryStore' \ DOMAIN memoryStore # {}) => (last'.op = "put" /\ last'.ok)

\* C6, amended: in memory mode, for every plain key P + name and a store
\* with no key under P, the put, list, read, delete and read of the key go as
\* the scenario says, the entry listed having the normalized key for its
\* pathname; and a key that is not stored reads as null until a put stores it.
C6_LifecyclePlainKeys ==
  /\ [](\A k \in LifecycleKeys : \A P \in prefixesOf(k) :
          (inMemoryMode /\ isPlainKey(k) /\ matching(P) = {}) => lifecycle(k, P))
  /\ []absentReadsNull
  /\ [][OnlyPutStores]_vars

\* C6's case: the one stored key was deleted, deleteBlob returned true and
\* the memory store is empty again.
C6_Witness ==
  /\ inMemoryMode
  /\ last.op = "delete" /\ last.returned = "true"
  /\ memoryStore = EmptyStore

(***************************************************************************)
(* The environment specification: the operator edits the configuration     *)
(* source and refreshes the secrets cache between the calls of the facade. *)
(***************************************************************************)

RequiredCredentials ==
  {"SUPABASE_URL", "SUPABASE_SERVICE_ROLE_KEY", "SUPABASE_STORAGE_BUCKET"}

\* The source src with key not set.
without(src, key) == [src EXCEPT !.values[key] = Null]

\* Memory mode with no credential set.
BareMemorySource ==
  [readable |-> TRUE,
   values |-> [k \in SecretKeys |-> IF k = "STORAGE_MODE" THEN ModeMemory ELSE Null]]

RemoteSource == ConfiguredSource(ModeSupabase, Null)

\* The configurations the operator writes: each mode, complete and with a
\* credential missing.
EnvSources ==
  {BareMemorySource, MemorySource, RemoteSource}
    \cup {without(RemoteSource, k) : k \in RequiredCredentials}

\* The most objects the stores hold together in the environment
\* specification.
MaxEnvObjects == 1

InitEnv ==
  /\ source \in EnvSources
  /\ cache = NoCache
  /\ supabaseState = NoSupabase
  /\ memoryStore = EmptyStore
  /\ remoteStore = EmptyStore
  /\ last = NoCall
  /\ listing = NoListing
  /\ Idle

EnvAnswers == IF CallsBackend(World) THEN {Ok} ELSE {NoResponse}

Configure == \E src \in EnvSources : SetSource(src)

EnvPut ==
  \E resp \in EnvAnswers :
    /\ ObjectCount(World) < MaxEnvObjects
    /\ PutBlobFromBuffer(KeyA, StoredBlob.buffer, StoredBlob.contentType, Null, resp)

EnvRead == \E resp \in EnvAnswers : ReadBlob(KeyA, resp)

EnvDelete == \E resp \in EnvAnswers : DeleteBlob(KeyA, resp)

NextEnv ==
  \/ Configure
  \/ RefreshSecretsCache
  \/ GetBlobEnvironment
  \/ EnvPut
  \/ EnvRead
  \/ EnvDelete

SpecEnv == InitEnv /\ [][NextEnv]_vars

(***************************************************************************)
(* Properties of the environment specification                             *)
(***************************************************************************)

\* The configuration a lookup made now reads: the secrets cache, filled from
\* the source when it is empty.
currentConfiguration == ensureCache(cache, source)

configuredMode == resolveMode(currentConfiguration)

\* C10 as stated: in every reachable world getBlobEnvironment() returns
\* provider memory and configured true when the configured mode is memory,
\* and configured false with an error when the configured mode is supabase
\* and the current configuration lacks one of the three credentials.
C10_ModeSwitchDeterminism ==
  LET e == getBlobEnvironment(World)
  IN /\ (configuredMode.ok /\ configuredMode.value = ModeMemory) =>
          e.ok /\ e.provider = "memory" /\ e.configured
     /\ (/\ configuredMode.ok /\ configuredMode.value = ModeSupabase
         /\ \E k \in RequiredCredentials : getSecret(currentConfiguration, k) = Null) =>
          e.ok /\ ~e.configured /\ e.error # NoError

\* C10's failing case: getBlobEnvironment() has reported supabase as
\* configured while the secrets cache, loaded, holds no bucket.
C10_Witness ==
  /\ last.op = "environment" /\ last.returned = "supabase"
  /\ cache.loaded
  /\ getSecret(cache, "SUPABASE_STORAGE_BUCKET") = Null

(***************************************************************************)
(* The configuration specification: the operator writes configurations    *)
(* that name a mode in any letter case, name none or an unknown one, lack a *)
(* credential, name another bucket, or cannot be read at all, and refreshes *)
(* the secrets cache; the callers use every operation of the facade, and    *)
(* the backend answers, fails or cannot be reached.                         *)
(***************************************************************************)

\* tmpkeys.txt is missing, or has a line the parser rejects.
UnreadableSource == [readable |-> FALSE, values |-> [k \in SecretKeys |-> Null]]

ModeUpperMemory == <<"M", "E", "M", "O", "R", "Y">>

ModeMixedSupabase == <<"S", "u", "p", "a", "b", "a", "s", "e">>

ModeUnknown == <<"s", "3">>

BucketB == <<"c", "d">>

\* The complete supabase configuration with another bucket.
OtherBucketSource ==
  [RemoteSource EXCEPT !.values["SUPABASE_STORAGE_BUCKET"] = BucketB]

ConfigSources ==
  {BareMemorySource, RemoteSource, OtherBucketSource, UnreadableSource,
   without(RemoteSource, "STORAGE_MODE"), without(RemoteSource, "SUPABASE_URL"),
   ConfiguredSource(ModeUnknown, Null), ConfiguredSource(ModeUpperMemory, Null),
   ConfiguredSource(ModeMixedSupabase, Null)}

\* The backend fails with an empty body.
Unavailable == [status |-> 503, body |-> <<>>]

\* The backend fails with a body.
ServerError == [status |-> 500, body |-> <<"n", "o">>]

\* fetch rejects: the backend cannot be reached.
Refused == [status |-> 0, body |-> <<"d", "o", "w", "n">>]

BackendAnswers == {Ok, Unavailable, ServerError, Refused}

ConfigAnswers == IF CallsBackend(World) THEN BackendAnswers ELSE {NoResponse}

\* The most objects the stores hold together in the configuration
\* specification.
MaxConfigObjects == 1

\* The names the backend lists: those of the objects it holds.
Held == SetToSeq(DOMAIN remoteStore)

InitConfig ==
  /\ source \in ConfigSources
  /\ cache = NoCache
  /\ supabaseState = NoSupabase
  /\ memoryStore = EmptyStore
  /\ remoteStore = EmptyStore
  /\ last = NoCall
  /\ listing = NoListing
  /\ Idle

Reconfigure == \E src \in ConfigSources : SetSource(src)

ConfigPut ==
  \E resp \in ConfigAnswers :
    /\ ObjectCount(World) < MaxConfigObjects
    /\ PutBlobFromBuffer(KeyA, StoredBlob.buffer, StoredBlob.contentType, Null, resp)

ConfigRead == \E resp \in ConfigAnswers : ReadBlob(KeyA, resp)

ConfigDelete == \E resp \in ConfigAnswers : DeleteBlob(KeyA, resp)

ConfigList ==
  \E resp \in ConfigAnswers :
    /\ Commit("list", listBlobs(World, <<>>, 0, <<>>, resp, Held))
    /\ UNCHANGED <<listing, callers>>

ConfigDeletePrefix ==
  \E resp \in ConfigAnswers, failAt \in 0..1, failResp \in ConfigAnswers :
    DeleteBlobsByPrefix(<<>>, resp, Held, failAt, failResp)

ConfigHealth == \E resp \in ConfigAnswers : BlobHealth(resp)

NextConfig ==
  \/ Reconfigure
  \/ RefreshSecretsCache
  \/ GetBlobEnvironment
  \/ ConfigHealth
  \/ ConfigPut
  \/ ConfigRead
  \/ ConfigDelete
  \/ ConfigList
  \/ ConfigDeletePrefix

SpecConfig == InitConfig /\ [][NextConfig]_vars

(***************************************************************************)
(* Properties of the configuration specification                           *)
(***************************************************************************)

\* What a call made now resolves: its mode and its credentials.
resolvedNow == resolve(enter(World))

\* A call made now meets a configuration failure: the mode does not
\* resolve, or it resolves to supabase and the credentials do not.
configurationFails ==
  \/ ~resolvedNow.mode.ok
  \/ resolvedNow.mode.value = ModeSupabase /\ ~resolvedNow.es.ok

\* C11 as stated: in every reachable world, whatever the configuration,
\* getBlobEnvironment() returns a report and does not throw, and when the
\* configuration fails the report has configured false and carries the
\* error.
C11_EnvironmentNeverThrows ==
  /\ getBlobEnvironment(World).ok
  /\ configurationFails =>
       /\ ~getBlobEnvironment(World).configured
       /\ getBlobEnvironment(World).error # NoError

\* C11's failing case: getBlobEnvironment() has thrown, the configuration
\* source being unreadable.
C11_Witness ==
  /\ last.op = "environment" /\ ~last.ok
  /\ ~source.readable

\* The storage-mode value a lookup made now reads: Null when it is not set
\* or the configuration cannot be loaded.
modeValueNow ==
  IF currentConfiguration.loaded THEN getSecret(currentConfiguration, "STORAGE_MODE")
  ELSE Null

\* The value names a mode, in whatever letter case.
modeRecognized ==
  /\ modeValueNow # Null
  /\ toLowerCase(modeValueNow) \in {ModeMemory, ModeSupabase}

\* The call with outcome r failed with an error before it touched a backend.
failsClosed(r) ==
  /\ ~r.ok /\ r.error # NoError
  /\ r.status = NoRequest
  /\ r.world.memoryStore = memoryStore
  /\ r.world.remoteStore = remoteStore
  /\ r.world.supabaseState = supabaseState

\* The call with outcome r ran in the canonical mode of a recognized value,
\* or failed closed on any other.
closedOrCanonical(r) ==
  IF modeRecognized THEN r.mode = toLowerCase(modeValueNow) ELSE failsClosed(r)

ModeSources ==
  {src \in ConfigSources :
     /\ src.readable /\ src.values["STORAGE_MODE"] # Null
     /\ toLowerCase(src.values["STORAGE_MODE"]) \in {ModeMemory, ModeSupabase}}

\* The world once the operator has written src and refreshed the cache.
reconfigured(src) == refreshSecretsCache([World EXCEPT !.source = src])

\* The credentials are there for a remote call under src: cached, or all
\* set in src.
credentialsResolve(src) ==
  \/ supabaseState.set
  \/ \A k \in RequiredCredentials : src.values[k] # Null

\* The call with outcome r, answered resp, went to the backend that mode
\* names: to the memory store without a request, or to the storage backend
\* with one and without touching the memory store.
dispatchedTo(mode, src, r, resp) ==
  IF mode = ModeMemory
  THEN /\ r.ok /\ r.mode = ModeMemory /\ r.status = NoRequest
       /\ r.world.remoteStore = remoteStore
       /\ r.world.supabaseState = supabaseState
  ELSE /\ r.mode = ModeSupabase
       /\ r.world.memoryStore = memoryStore
       /\ credentialsResolve(src) => r.status # NoRequest

\* The answers of a backend that can be reached.
Reached == BackendAnswers \ {Refused}

\* C13: from every reachable world, once the operator has written a
\* configuration that names a mode and the secrets cache was refreshed, the
\* next put, read, delete or list goes to the backend the new value names,
\* and a put stores its object there.
C13_ModeResolvedPerCall ==
  \A src \in ModeSources, resp \in Reached :
    LET mode == toLowerCase(src.values["STORAGE_MODE"])
        put == putBlobFromBuffer(reconfigured(src), KeyA, StoredBlob.buffer,
                                 StoredBlob.contentType, Null, resp)
    IN /\ dispatchedTo(mode, src, put, resp)
       /\ put.ok =>
            normalizePath(KeyA) \in
              DOMAIN (IF mode = ModeMemory THEN put.world.memoryStore
                      ELSE put.world.remoteStore)
       /\ dispatchedTo(mode, src, readBlob(reconfigured(src), KeyA, resp), resp)
       /\ dispatchedTo(mode, src, deleteBlob(reconfigured(src), KeyA, resp), resp)
       /\ dispatchedTo(mode, src,
                       listBlobs(reconfigured(src), <<>>, 0, <<>>, resp, Held), resp)

\* C13's case: a put went to the memory store in a process that had gone to
\* the storage backend before: the mode was changed from supabase to memory
\* and the cache refreshed.
C13_Witness ==
  /\ last.op = "put" /\ last.ok /\ last.status = NoRequest
  /\ supabaseState.set
  /\ normalizePath(KeyA) \in DOMAIN memoryStore

\* The complete supabase configurations.
RemoteSources == {RemoteSource, OtherBucketSource}

\* The credentials configuration src holds.
credentialsOf(src) ==
  [set |-> TRUE, url |-> stripTrailingSlashes(src.values["SUPABASE_URL"]),
   key |-> src.values["SUPABASE_SERVICE_ROLE_KEY"],
   bucket |-> src.values["SUPABASE_STORAGE_BUCKET"]]

\* The credentials the remote call with outcome r made its request with:
\* those ensureSupabase returned to it.
credentialsUsed(r) == r.world.supabaseState

\* C14 as stated: from every reachable world, once the operator has written
\* a supabase configuration and the secrets cache was cleared, a put, a read
\* or a delete that starts makes its request with the endpoint, key and
\* bucket of that configuration.
C14_CredentialsInvalidated ==
  \A src \in RemoteSources :
    /\ credentialsUsed(putBlobFromBuffer(reconfigured(src), KeyA, StoredBlob.buffer,
                                         StoredBlob.contentType, Null, Ok))
         = credentialsOf(src)
    /\ credentialsUsed(readBlob(reconfigured(src), KeyA, Ok)) = credentialsOf(src)
    /\ credentialsUsed(deleteBlob(reconfigured(src), KeyA, Ok)) = credentialsOf(src)

\* C14's failing case: a put has made its request with bucket BucketA while
\* the secrets cache, loaded after the change, holds bucket BucketB.
C14_Witness ==
  /\ last.op = "put" /\ last.ok /\ last.status = Ok.status
  /\ cache.loaded /\ getSecret(cache, "SUPABASE_STORAGE_BUCKET") = BucketB
  /\ supabaseState.set /\ supabaseState.bucket = BucketA

(***************************************************************************)
(* The write specification: in one mode, callers put objects under a few   *)
(* keys, put again under keys that are stored, and read, list and delete.  *)
(***************************************************************************)

KeyDotted == <<"a", ".", "b", "/", "c">>

KeyExt == <<"p", "/", "a", ".", "b">>

WriteKeys == {KeyA, KeyPA, KeyData}

\* What a second put under a key stores.
SecondBlob == [buffer |-> <<3>>, contentType |-> <<"b">>]

\* The most objects a store holds in the write specification.
MaxWritten == 2

WriteAnswers == IF CallsBackend(World) THEN {Ok, ServerError} ELSE {NoResponse}

\* The keys the two stores hold.
StoredKeys == DOMAIN memoryStore \cup DOMAIN remoteStore

InitWrite ==
  /\ source \in {MemorySource, RemoteSource}
  /\ cache = NoCache
  /\ supabaseState = NoSupabase
  /\ memoryStore = EmptyStore
  /\ remoteStore = EmptyStore
  /\ last = NoCall
  /\ listing = NoListing
  /\ Idle

\* A put under a key that is not stored.
WritePut ==
  \E path \in WriteKeys, resp \in WriteAnswers :
    /\ normalizePath(path) \notin StoredKeys
    /\ Cardinality(StoredKeys) < MaxWritten
    /\ PutBlobFromBuffer(path, StoredBlob.buffer, StoredBlob.contentType, Null, resp)

\* A put of another object under a key that is stored.
WriteAgain ==
  \E path \in WriteKeys, resp \in WriteAnswers :
    /\ normalizePath(path) \in StoredKeys
    /\ PutBlobFromBuffer(path, SecondBlob.buffer, SecondBlob.contentType, Null, resp)

WriteRead == \E input \in WriteKeys, resp \in WriteAnswers : ReadBlob(input, resp)

WriteDelete == \E path \in WriteKeys, resp \in WriteAnswers : DeleteBlob(path, resp)

WriteList ==
  \E resp \in WriteAnswers :
    /\ Commit("list", listBlobs(World, <<>>, 0, <<>>, resp, Held))
    /\ UNCHANGED <<listing, callers>>

NextWrite ==
  \/ WritePut
  \/ WriteAgain
  \/ WriteRead
  \/ WriteDelete
  \/ WriteList

SpecWrite == InitWrite /\ [][NextWrite]_vars

(***************************************************************************)
(* Properties of the write specification                                   *)
(***************************************************************************)

\* The world after putBlobFromBuffer(k, first) and putBlobFromBuffer(k,
\* second), the uploads answered up.
putTwice(k, first, second, up) ==
  putBlobFromBuffer(
    putBlobFromBuffer(World, k, first.buffer, first.contentType, Null, up).world,
    k, second.buffer, second.contentType, Null, up).world

\* How many entries of a page have pathname.
timesListed(blobs, pathname) ==
  Cardinality({i \in 1..Len(blobs) : blobs[i].pathname = pathname})

\* The names the backend of world w lists.
heldIn(w) == SetToSeq(DOMAIN w.remoteStore)

\* Every key of both stores is a normalized key, so that a normalized key
\* has one entry at most.
storedNormalized == \A k \in StoredKeys : normalizePath(k) = k

\* After two successive puts under k, a read of k returns what the second
\* one put (its content type as a read gives it back) and a list has k once.
overwritten(k, first, second, up, down) ==
  /\ readBlob(putTwice(k, first, second, up), k, down).ok
  /\ readBlob(putTwice(k, first, second, up), k, down).found
  /\ readBlob(putTwice(k, first, second, up), k, down).object.buffer = second.buffer
  /\ readBlob(putTwice(k, first, second, up), k, down).object.contentType
       = typeReadBack(World, second.contentType)
  /\ listBlobs(putTwice(k, first, second, up), <<>>, 0, <<>>, down,
               heldIn(putTwice(k, first, second, up))).ok
  /\ timesListed(listBlobs(putTwice(k, first, second, up), <<>>, 0, <<>>, down,
                           heldIn(putTwice(k, first, second, up))).blobs,
                 normalizePath(k)) = 1

\* The blobs two successive puts can be given.
WrittenBlobs == Blobs \cup {StoredBlob, SecondBlob}

\* The answers with which the backend accepts an upload or serves a
\* download or a list.
Accepted == {resp \in WriteAnswers : resp.status < 500}

\* C15 as stated: in every reachable world every stored key is normalized,
\* and for every key, after two successive puts under it a read returns the
\* second buffer and content type and a list returns the key exactly once.
C15_WritesOverwriteEveryKey ==
  /\ storedNormalized
  /\ \A k \in Paths, first \in WrittenBlobs, second \in WrittenBlobs, up \in Accepted :
       /\ overwritten(k, first, second, up, up)
       /\ readBlob(putTwice(k, first, second, up), k, up).object.contentType
            = second.contentType

\* C15, amended: the same for every plain key, the default content type
\* standing for an empty one in remote mode.
C15_WritesOverwritePlainKeys ==
  /\ storedNormalized
  /\ \A k \in Paths, first \in WrittenBlobs, second \in WrittenBlobs, up \in Accepted :
       isPlainKey(k) => overwritten(k, first, second, up, up)

\* C15's case: a second put under a stored key has returned, and the store
\* of the mode holds the second object under the key, and one key in all.
C15_Witness ==
  /\ last.op = "put" /\ last.ok
  /\ Cardinality(StoredKeys) = 1
  /\ \A k \in DOMAIN memoryStore : memoryStore[k].buffer = SecondBlob.buffer
  /\ \A k \in DOMAIN remoteStore : remoteStore[k].buffer = SecondBlob.buffer

(***************************************************************************)
(* The suffix specification: in one mode, callers put objects with         *)
(* addRandomSuffix as the clock runs, and read them back under the keys    *)
(* the puts returned.                                                      *)
(***************************************************************************)

\* The base paths of the puts with addRandomSuffix.
SuffixKeys == {KeyA, KeyExt, KeyDotted}

\* What Math.random().toString(36).slice(2, 10) can give: up to eight
\* characters of 0-9a-z; two of them here.
RandomParts == {<<"x">>, <<"q", "7">>}

\* The clock runs for MaxNow milliseconds.
MaxNow == 2

\* Date.now() at the clock's tick t; the first reading has one digit in
\* base 36 and the next has two.
clockReading(t) == t + 34

\* The most puts with addRandomSuffix.
MaxIssued == 2

\* What the n-th put with addRandomSuffix stores.
SuffixedBlob(n) == [buffer |-> <<9, n>>, contentType |-> TextPlain]

\* The step of putBlobFromBuffer(path, buf, contentType, {addRandomSuffix:
\* true}) with outcome r, the suffix token drawn: the caller keeps the key
\* the call returned.
CommitSuffixed(path, blob, token, r) ==
  /\ Commit("put", r)
  /\ issued' = IF r.ok
               THEN Append(issued, [base |-> path, token |-> token,
                                    key |-> r.target, buffer |-> blob.buffer])
               ELSE issued
  /\ UNCHANGED <<listing, inflight, now, asked, threads>>

\* A put with addRandomSuffix: Math.random() draws, the clock is read.
PutSuffixed ==
  \E path \in SuffixKeys, random \in RandomParts, resp \in WriteAnswers :
    /\ Len(issued) < MaxIssued
    /\ CommitSuffixed(path, SuffixedBlob(Len(issued) + 1),
                      randomSuffix(random, clockReading(now)),
                      putBlobFromBuffer(World, path,
                                        SuffixedBlob(Len(issued) + 1).buffer,
                                        SuffixedBlob(Len(issued) + 1).contentType,
                                        randomSuffix(random, clockReading(now)),
                                        resp))

\* A millisecond passes.
Tick ==
  /\ now < MaxNow
  /\ now' = now + 1
  /\ UNCHANGED <<source, cache, supabaseState, memoryStore, remoteStore, last,
                 listing, inflight, issued, asked, threads>>

\* A caller reads back under a key a put with addRandomSuffix returned.
ReadSuffixed ==
  \E i \in 1..Len(issued), resp \in WriteAnswers : ReadBlob(issued[i].key, resp)

NextSuffix ==
  \/ PutSuffixed
  \/ Tick
  \/ ReadSuffixed

SpecSuffix == InitWrite /\ [][NextSuffix]_vars

(***************************************************************************)
(* Properties of the suffix specification                                  *)
(***************************************************************************)

\* A read of the key that the put recorded as e returned gives back what
\* that put stored.
readableAs(e) ==
  \A resp \in Accepted :
    /\ readBlob(World, e.key, resp).ok
    /\ readBlob(World, e.key, resp).found
    /\ readBlob(World, e.key, resp).object.buffer = e.buffer

\* The puts with addRandomSuffix recorded as first and second stored under
\* two keys, and both objects are readable.
keptApart(first, second) ==
  /\ first.key # second.key
  /\ readableAs(first)
  /\ readableAs(second)

\* C19 as stated: in every reachable world, any two puts with
\* addRandomSuffix and the same base path that have returned stored under
\* two different keys, and each object is read back under its key.
C19_SuffixedKeysDiffer ==
  \A i \in 1..Len(issued), j \in 1..Len(issued) :
    (i < j /\ issued[i].base = issued[j].base) => keptApart(issued[i], issued[j])

\* C19's failing case: two puts with addRandomSuffix and the same base path
\* have returned the same key, and the store of the mode holds one object.
C19_Witness ==
  /\ Len(issued) = 2
  /\ issued[1].base = issued[2].base
  /\ issued[1].key = issued[2].key
  /\ Cardinality(StoredKeys) = 1

\* C19 for two puts that did not draw the same random characters in the
\* same millisecond.
C19_DistinctDrawsDiffer ==
  \A i \in 1..Len(issued), j \in 1..Len(issued) :
    (i < j /\ issued[i].base = issued[j].base /\ issued[i].token # issued[j].token)
      => keptApart(issued[i], issued[j])

\* The file name of a key: what follows its last "/".
fileName(key) == sliceFrom(key, lastIndexOf(key, "/") + 1)

\* The directory part of a key: up to its last "/", the "/" included.
directoryPart(key) == sliceTo(key, lastIndexOf(key, "/") + 1)

\* The key with token before the last "." of its file name, or at its end
\* when the file name has none.
suffixedAsSpecified(key, token) ==
  IF lastIndexOf(fileName(key), ".") = -1 THEN key \o token
  ELSE directoryPart(key)
         \o sliceTo(fileName(key), lastIndexOf(fileName(key), "."))
         \o token
         \o sliceFrom(fileName(key), lastIndexOf(fileName(key), "."))

\* C20 as stated: in every reachable world, the key every put with
\* addRandomSuffix returned is the normalized requested key with the token
\* before the last "." of its file name, or at its end when the file name
\* has no ".": the directory part and the extension are those of the
\* requested key.
C20_SuffixBeforeExtension ==
  \A i \in 1..Len(issued) :
    issued[i].key = suffixedAsSpecified(normalizePath(issued[i].base), issued[i].token)

\* C20's failing case: a put with addRandomSuffix under a key whose
\* directory has a "." and whose file name has none has returned a key that
\* does not end with the token.
C20_Witness ==
  \E i \in 1..Len(issued) :
    /\ issued[i].base = KeyDotted
    /\ issued[i].key # normalizePath(KeyDotted) \o issued[i].token
    /\ directoryPart(issued[i].key) # directoryPart(normalizePath(KeyDotted))

\* C20 for the keys whose directory part has no ".".
C20_SuffixBeforeExtensionPlainDirectory ==
  \A i \in 1..Len(issued) :
    lastIndexOf(directoryPart(normalizePath(issued[i].base)), ".") = -1
      => issued[i].key = suffixedAsSpecified(normalizePath(issued[i].base),
                                             issued[i].token)

(***************************************************************************)
(* The concurrency specification: remote calls await the backend while the *)
(* operator rewrites the configuration and refreshes the secrets cache and  *)
(* while other calls run; deleteBlobsByPrefix awaits its list call and then *)
(* each of its DELETEs.                                                     *)
(***************************************************************************)

AsyncSources == {MemorySource, RemoteSource, UnreadableSource}

AsyncKeys == {KeyA, KeyPA}

\* The most objects the stores hold together in the concurrency
\* specification.
MaxAsyncObjects == 2

AsyncAnswers == {Ok, ServerError}

\* The answers a call that runs in one piece gets: Ok, or none.
PromptAnswers == IF CallsBackend(World) THEN {Ok} ELSE {NoResponse}

InitAsync ==
  /\ source \in {MemorySource, RemoteSource}
  /\ cache = NoCache
  /\ supabaseState = NoSupabase
  /\ memoryStore = EmptyStore
  /\ remoteStore = EmptyStore
  /\ last = NoCall
  /\ listing = NoListing
  /\ Idle

AsyncConfigure == \E src \in AsyncSources : SetSource(src)

\* A call that runs in one piece, whether a call is in flight or not.
AsyncPut ==
  \E path \in AsyncKeys, resp \in PromptAnswers :
    /\ ObjectCount(World) < MaxAsyncObjects
    /\ PutBlobFromBuffer(path, StoredBlob.buffer, StoredBlob.contentType, Null, resp)

AsyncDeletePrefix ==
  \E resp \in PromptAnswers : DeleteBlobsByPrefix(<<>>, resp, Held, 0, resp)

BeginPut ==
  \E path \in AsyncKeys :
    /\ ObjectCount(World) < MaxAsyncObjects
    /\ Begin("put", "answer", normalizePath(path),
             MemoryBlobRecord(SecondBlob.buffer, SecondBlob.contentType))

BeginRead == \E path \in AsyncKeys : Begin("read", "answer", normalizePath(path), Null)

BeginDelete == \E path \in AsyncKeys : Begin("delete", "answer", normalizePath(path), Null)

BeginList == Begin("list", "answer", <<>>, Null)

BeginDeletePrefix == Begin("delete-prefix", "list", <<>>, Null)

Answered == \E resp \in AsyncAnswers : Answer(resp, Held)

ListAnswered == \E resp \in AsyncAnswers : PrefixListed(resp, Held)

DeleteAnswered == \E resp \in AsyncAnswers : PrefixDeleted(resp)

NextAsync ==
  \/ AsyncConfigure
  \/ RefreshSecretsCache
  \/ AsyncPut
  \/ AsyncDeletePrefix
  \/ BeginPut
  \/ BeginRead
  \/ BeginDelete
  \/ BeginList
  \/ BeginDeletePrefix
  \/ Answered
  \/ ListAnswered
  \/ DeleteAnswered

SpecAsync == InitAsync /\ [][NextAsync]_vars

\* What C17 asks of blobHealth() called now with the answer resp to its
\* list call of limit 1 (status 0: fetch rejects).
healthAsSpecified(resp) ==
  /\ blobHealth(World, resp).ok
  /\ ~resolvedNow.mode.ok =>
       /\ ~blobHealth(World, resp).healthy
       /\ blobHealth(World, resp).reason = resolvedNow.mode.error
  /\ (resolvedNow.mode.ok /\ resolvedNow.mode.value = ModeMemory) =>
       /\ blobHealth(World, resp).healthy
       /\ blobHealth(World, resp).mode = ModeMemory
       /\ ~blobHealth(World, resp).requested
  /\ (resolvedNow.mode.ok /\ resolvedNow.mode.value = ModeSupabase) =>
       IF ~resolvedNow.es.ok
       THEN /\ ~blobHealth(World, resp).healthy
            /\ blobHealth(World, resp).reason = resolvedNow.es.error
       ELSE IF resp.status = 0
       THEN /\ ~blobHealth(World, resp).healthy
            /\ blobHealth(World, resp).reason
                 = backendFailure("health", resp.status, resp.body)
       ELSE IF isOk(resp.status)
       THEN blobHealth(World, resp).healthy
       ELSE /\ ~blobHealth(World, resp).healthy
            /\ blobHealth(World, resp).reason = responseReason(resp)

\* C17 as stated: in every reachable world blobHealth() returns a report
\* and does not throw: healthy with mode memory when the mode is memory;
\* in supabase mode healthy on a 2xx answer, unhealthy with the body (the
\* status when the body is empty) as reason on any other answer, and
\* unhealthy with the error as reason when fetch rejects or the mode or the
\* credentials do not resolve.
C17_HealthNeverThrows == \A resp \in BackendAnswers : healthAsSpecified(resp)

\* C17's failing case: blobHealth() has thrown, the configuration source
\* being unreadable.
C17_Witness ==
  /\ last.op = "health" /\ ~last.ok
  /\ ~source.readable

\* C17 where the secrets can be loaded: the source is readable or the cache
\* is filled.
C17_HealthReportsWhenLoadable ==
  (source.readable \/ cache.loaded) => C17_HealthNeverThrows

\* The probe with outcome r left the memory store, the remote objects and
\* the cached credentials as they were.
probeKeeps(r) ==
  /\ r.world.memoryStore = memoryStore
  /\ r.world.remoteStore = remoteStore
  /\ r.world.supabaseState = supabaseState

\* C18 as stated: in every reachable world, in every mode and whatever the
\* backend answers, blobHealth() leaves the memory store, the remote
\* objects and the cached credentials exactly as they were.
C18_ProbeNeverMutates ==
  \A resp \in BackendAnswers : probeKeeps(blobHealth(World, resp))

\* The credentials the configuration in force holds.
configuredCredentials ==
  [set |-> TRUE,
   url |-> stripTrailingSlashes(getSecret(currentConfiguration, "SUPABASE_URL")),
   key |-> getSecret(currentConfiguration, "SUPABASE_SERVICE_ROLE_KEY"),
   bucket |-> getSecret(currentConfiguration, "SUPABASE_STORAGE_BUCKET")]

\* The probe with outcome r left the memory store and the remote objects as
\* they were, and the cached credentials too unless none were cached and
\* the call resolved supabase with its credentials: it cached those.
probeKeepsStores(r) ==
  /\ r.world.memoryStore = memoryStore
  /\ r.world.remoteStore = remoteStore
  /\ r.world.supabaseState =
       IF /\ ~supabaseState.set /\ ~configurationFails
          /\ resolvedNow.mode.value = ModeSupabase
       THEN configuredCredentials
       ELSE supabaseState

\* C18 amended: in every reachable world, in every mode and whatever the
\* backend answers, blobHealth() leaves the memory store and the remote
\* objects as they were, and leaves cached credentials as they were; when
\* none are cached and the mode is supabase with credentials that resolve,
\* it caches the credentials of the configuration in force.
C18_ProbeKeepsStores ==
  \A resp \in BackendAnswers : probeKeepsStores(blobHealth(World, resp))

\* C18's case: the probe has run in supabase mode and reported healthy,
\* credentials are cached, and the backend holds an object.
C18_Witness ==
  /\ last.op = "health" /\ last.ok /\ last.returned = "healthy"
  /\ last.status = Ok.status
  /\ supabaseState.set
  /\ DOMAIN remoteStore # {}

(***************************************************************************)
(* Properties of the concurrency specification                             *)
(***************************************************************************)

\* The outcome r with the memory store left out.
blankMemory(r) == [r EXCEPT !.world.memoryStore = EmptyStore]

\* The world with an empty memory store.
emptied == [World EXCEPT !.memoryStore = EmptyStore]

\* The call with outcome r (r0 in the world with an empty memory store) kept
\* to the backend of its mode: in memory mode it made no request and left
\* the remote objects and the cached credentials alone; in supabase mode it
\* left the memory store alone and did not depend on what that holds.
unmixed(r, r0) ==
  /\ r.mode = ModeMemory =>
       /\ r.status = NoRequest
       /\ r.world.remoteStore = remoteStore
       /\ r.world.supabaseState = supabaseState
  /\ r.mode = ModeSupabase =>
       /\ r.world.memoryStore = memoryStore
       /\ blankMemory(r) = blankMemory(r0)

\* Every put, read, delete, list and deleteBlobsByPrefix made now keeps to
\* the backend of the mode it resolves.
callsUnmixed ==
  \A resp \in AsyncAnswers :
    /\ \A path \in AsyncKeys :
         /\ unmixed(putBlobFromBuffer(World, path, StoredBlob.buffer,
                                      StoredBlob.contentType, Null, resp),
                    putBlobFromBuffer(emptied, path, StoredBlob.buffer,
                                      StoredBlob.contentType, Null, resp))
         /\ unmixed(readBlob(World, path, resp), readBlob(emptied, path, resp))
         /\ unmixed(deleteBlob(World, path, resp), deleteBlob(emptied, path, resp))
    /\ unmixed(listBlobs(World, <<>>, 0, <<>>, resp, Held),
               listBlobs(emptied, <<>>, 0, <<>>, resp, Held))
    /\ \A failAt \in 0..1 :
         unmixed(deleteBlobsByPrefix(World, <<>>, Ok, Held, failAt, resp),
                 deleteBlobsByPrefix(emptied, <<>>, Ok, Held, failAt, resp))

\* A step of the call in flight (an answer arrives) leaves the memory store
\* alone, whatever the configuration is by then, and the call goes on, if
\* it does, with the mode and the credentials of its start.
flightUnmixed ==
  (inflight # NoFlight /\ inflight' # inflight) =>
    /\ memoryStore' = memoryStore
    /\ inflight' # NoFlight =>
         /\ inflight'.mode = inflight.mode
         /\ inflight'.state = inflight.state

\* A call starts in supabase mode only, and records that mode.
flightRemote == inflight # NoFlight => inflight.mode = ModeSupabase

\* C16: in every reachable world a call that resolves memory makes no
\* request and leaves the remote objects and cached credentials alone, a
\* call that resolves supabase neither reads nor changes the memory store,
\* and every later step of a call in flight keeps the mode and credentials
\* of its start and leaves the memory store alone, also when the
\* configuration was changed and refreshed while it awaited its answer.
C16_BackendNeverMixed ==
  /\ [](callsUnmixed /\ flightRemote)
  /\ [][flightUnmixed]_vars

\* C16's case: a deleteBlobsByPrefix that started in supabase mode has
\* returned after deleting remote objects, while the configuration in force
\* names memory and the memory store holds an object.
C16_Witness ==
  /\ last.op = "delete-prefix" /\ last.ok /\ last.returned = "some"
  /\ last.status = Ok.status
  /\ inflight = NoFlight
  /\ cache.loaded /\ getSecret(cache, "STORAGE_MODE") = ModeMemory
  /\ DOMAIN memoryStore # {}

(***************************************************************************)
(* The URL specification: in one mode, the operator sets the public        *)
(* base-URL override in each of its forms; callers put objects, read them  *)
(* back by the URL built for their key, and read by other inputs: a data   *)
(* URI and absolute URLs of other places.                                  *)
(***************************************************************************)

\* PUBLIC_STORAGE_BASE_URL as a full URL whose path has no trailing slash.
BaseNoSlash == <<"h", "t", "t", "p", ":", "/", "/", "h", "/", "d">>

\* The same with a trailing slash.
BaseSlash == BaseNoSlash \o <<"/">>

\* PUBLIC_STORAGE_BASE_URL as a path fragment.
BaseFragment == <<"c">>

\* The forms of the override: absent, a full URL (an origin; a path
\* without and with a trailing slash), a path fragment.
Overrides == {Null, PublicBase, BaseNoSlash, BaseSlash, BaseFragment}

UrlSources ==
  {ConfiguredSource(mode, override) :
     mode \in {ModeMemory, ModeSupabase}, override \in Overrides}

KeyEscaped == <<"a", ":", "b">>

\* Normalized keys, one of them with a character the builder escapes.
UrlKeys == {KeyLowerA, KeyPA, KeyEscaped}

\* An absolute URL of another origin.
ForeignUrl == <<"h", "t", "t", "p", ":", "/", "/", "x", "/", "a">>

\* An absolute URL of the override's origin, outside the path of BaseSlash.
ElsewhereUrl == <<"h", "t", "t", "p", ":", "/", "/", "h", "/", "e">>

\* Inputs of readBlob that are not keys.
OtherInputs == {KeyData, ForeignUrl, ElsewhereUrl}

\* The most objects the stores hold together in the URL specification.
MaxUrlObjects == 1

UrlAnswers == IF CallsBackend(World) THEN {Ok} ELSE {NoResponse}

\* The store of the mode in force.
storeNow == IF CallsBackend(World) THEN remoteStore ELSE memoryStore

InitUrl ==
  /\ source \in UrlSources
  /\ cache = NoCache
  /\ supabaseState = NoSupabase
  /\ memoryStore = EmptyStore
  /\ remoteStore = EmptyStore
  /\ last = NoCall
  /\ listing = NoListing
  /\ Idle

\* The operator rewrites the override; the mode stays.
UrlConfigure ==
  \E override \in Overrides :
    SetSource(ConfiguredSource(source.values["STORAGE_MODE"], override))

\* A put under a key, or under a path that is an absolute URL.
UrlPut ==
  \E path \in UrlKeys \cup {ForeignUrl}, resp \in UrlAnswers :
    /\ ObjectCount(World) < MaxUrlObjects
    /\ PutBlobFromBuffer(path, StoredBlob.buffer, StoredBlob.contentType, Null, resp)

UrlDelete == \E path \in UrlKeys \cup {ForeignUrl}, resp \in UrlAnswers : DeleteBlob(path, resp)

\* The step of readBlob(input) with outcome r, made by a caller that holds
\* input for the URL of key (Null: for no key).
CommitAsked(input, key, r) ==
  /\ Commit("read", r)
  /\ asked' = [input |-> input, key |-> key,
               returned |-> IF r.ok THEN readValue(r) ELSE "thrown"]
  /\ UNCHANGED <<listing, inflight, issued, now, threads>>

\* A caller reads a stored object by the URL that putBlobFromBuffer and
\* listBlobs return for its key under the configuration in force.
UrlReadBack ==
  \E k \in DOMAIN storeNow, resp \in UrlAnswers :
    CommitAsked(buildProxyUrl(ensureCache(cache, source), k), k,
                readBlob(World, buildProxyUrl(ensureCache(cache, source), k), resp))

\* A caller reads by a data URI or by an absolute URL of some other place.
UrlReadOther ==
  \E input \in OtherInputs, resp \in UrlAnswers :
    CommitAsked(input, Null, readBlob(World, input, resp))

NextUrl ==
  \/ UrlConfigure
  \/ RefreshSecretsCache
  \/ UrlPut
  \/ UrlDelete
  \/ UrlReadBack
  \/ UrlReadOther

SpecUrl == InitUrl /\ [][NextUrl]_vars

(***************************************************************************)
(* Properties of the URL specification                                     *)
(***************************************************************************)

\* The url putBlobFromBuffer(k) returns now, read back at once, gives the
\* object that was put.
readsBackPut(put, blob, down) ==
  put.ok =>
    /\ readBlob(put.world, put.url, down).ok
    /\ readBlob(put.world, put.url, down).found
    /\ readBlob(put.world, put.url, down).object.buffer = blob.buffer

\* The url of every entry that listBlobs returns in world w, read back at
\* once, gives the object stored under the entry's pathname.
readsBackListed(w, page, down) ==
  page.ok =>
    \A i \in 1..Len(page.blobs) :
      /\ extractPathFromUrl(ensureCache(w.cache, w.source), page.blobs[i].url)
           = page.blobs[i].pathname
      /\ readBlob(w, page.blobs[i].url, down).ok
      /\ readBlob(w, page.blobs[i].url, down).found

\* C21 as stated: in every reachable world, whatever the form of the
\* override (absent, full URL with or without a trailing slash, path
\* fragment), for every normalized key k the key extracted from the URL
\* built for k is k, a read of the url a put of k returned gives the object
\* put, and a read of the url of every listed entry gives its object.
C21_ExtractionInvertsBuilder ==
  /\ \A k \in UrlKeys :
       /\ extractPathFromUrl(currentConfiguration,
                             buildProxyUrl(currentConfiguration, k)) = k
       /\ \A resp \in UrlAnswers :
            readsBackPut(putBlobFromBuffer(World, k, StoredBlob.buffer,
                                           StoredBlob.contentType, Null, resp),
                         StoredBlob, resp)
  /\ \A resp \in UrlAnswers :
       readsBackListed(World, listBlobs(World, <<>>, 0, <<>>, resp, Held), resp)

\* C21's failing case: a caller has read a stored object by the URL built
\* for its key, and got null.
C21_Witness ==
  /\ last.op = "read"
  /\ asked.key \in UrlKeys
  /\ asked.key \in DOMAIN storeNow
  /\ asked.input = buildProxyUrl(currentConfiguration, asked.key)
  /\ asked.returned = "null"

\* The override is absent or a full URL whose path ends with a slash.
overrideIsDirectory ==
  getSecret(currentConfiguration, "PUBLIC_STORAGE_BASE_URL")
    \in {Null, PublicBase, BaseSlash}

\* C21 where the override is absent or a full URL whose path ends with a
\* slash.
C21_InvertsUnderDirectoryOverride ==
  overrideIsDirectory => C21_ExtractionInvertsBuilder

\* The input is an absolute http(s) URL whose path matches neither the
\* proxy prefix nor the override in force (origin and path prefix).
unmatchedUrl(c, input) ==
  /\ isHttpUrl(input)
  /\ parseUrl(input).valid
  /\ ~startsWith(parseUrl(input).pathname, BLOB_PROXY_PREFIX)
  /\ \/ getSecret(c, "PUBLIC_STORAGE_BASE_URL") = Null
     \/ ~parseUrl(getSecret(c, "PUBLIC_STORAGE_BASE_URL")).valid
     \/ parseUrl(getSecret(c, "PUBLIC_STORAGE_BASE_URL")).origin
          # parseUrl(input).origin
     \/ ~startsWith(parseUrl(input).pathname,
                    parseUrl(getSecret(c, "PUBLIC_STORAGE_BASE_URL")).pathname)

\* readBlob(input) with outcome r (r0 in the world with an empty memory
\* store) returned null, made no request and did not depend on the memory
\* store.
skipped(r, r0) ==
  /\ r.ok /\ ~r.found
  /\ r.status = NoRequest
  /\ blankMemory(r) = blankMemory(r0)

\* What C22 asks for an input that is not recognized.
unrecognizedSkipped(input) ==
  /\ extractPathFromUrl(currentConfiguration, input) = Null
  /\ \A resp \in {Ok, NoResponse} :
       skipped(readBlob(World, input, resp), readBlob(emptied, input, resp))

\* C22 as stated: in every reachable world, for every input that is a data
\* URI or an absolute http(s) URL matching neither the proxy prefix nor the
\* override, key extraction returns null and readBlob returns null without
\* reading the memory store and without a request.
C22_UnrecognizedReadsNull ==
  \A input \in OtherInputs :
    (startsWith(input, DataScheme) \/ unmatchedUrl(currentConfiguration, input))
      => unrecognizedSkipped(input)

\* C22's failing case: a caller has read by an absolute URL of another
\* origin and got the object stored under that URL as its key.
C22_Witness ==
  /\ last.op = "read"
  /\ asked.input = ForeignUrl /\ asked.key = Null
  /\ asked.returned = "object"

\* C22 for data URIs.
C22_DataUriReadsNull ==
  \A input \in OtherInputs : startsWith(input, DataScheme) => unrecognizedSkipped(input)

(***************************************************************************)
(* The credentials specification: in supabase mode, the operator writes    *)
(* configurations with any of the three credentials missing, or with an    *)
(* endpoint made of slashes, and refreshes the secrets cache; callers use  *)
(* the remote operations.                                                  *)
(***************************************************************************)

\* The source src with none of keys set.
lacking(src, keys) ==
  [src EXCEPT !.values = [k \in SecretKeys |-> IF k \in keys THEN Null ELSE @[k]]]

\* SUPABASE_URL=/ : a value the secrets parser takes.
SlashUrl == <<"/">>

SlashUrlSource == [RemoteSource EXCEPT !.values["SUPABASE_URL"] = SlashUrl]

\* Supabase mode with every subset of the credentials missing.
CredentialSources ==
  {lacking(RemoteSource, keys) : keys \in SUBSET RequiredCredentials}
    \cup {SlashUrlSource}

\* The most objects the backend holds in the credentials specification.
MaxCredObjects == 1

CredAnswers == IF CallsBackend(World) THEN {Ok, ServerError} ELSE {NoResponse}

InitCred ==
  /\ source \in CredentialSources
  /\ cache = NoCache
  /\ supabaseState = NoSupabase
  /\ memoryStore = EmptyStore
  /\ remoteStore = EmptyStore
  /\ last = NoCall
  /\ listing = NoListing
  /\ Idle

CredConfigure == \E src \in CredentialSources : SetSource(src)

CredPut ==
  \E resp \in CredAnswers :
    /\ ObjectCount(World) < MaxCredObjects
    /\ PutBlobFromBuffer(KeyA, StoredBlob.buffer, StoredBlob.contentType, Null, resp)

CredRead == \E resp \in CredAnswers : ReadBlob(KeyA, resp)

CredDelete == \E resp \in CredAnswers : DeleteBlob(KeyA, resp)

CredList ==
  \E resp \in CredAnswers :
    /\ Commit("list", listBlobs(World, <<>>, 0, <<>>, resp, Held))
    /\ UNCHANGED <<listing, callers>>

CredDeletePrefix ==
  \E resp \in CredAnswers : DeleteBlobsByPrefix(<<>>, resp, Held, 0, resp)

CredHealth == \E resp \in CredAnswers : BlobHealth(resp)

NextCred ==
  \/ CredConfigure
  \/ RefreshSecretsCache
  \/ CredPut
  \/ CredRead
  \/ CredDelete
  \/ CredList
  \/ CredDeletePrefix
  \/ CredHealth

SpecCred == InitCred /\ [][NextCred]_vars

(***************************************************************************)
(* Properties of the credentials specification                             *)
(***************************************************************************)

\* The required credentials the configuration in force does not set.
missingNow == {k \in RequiredCredentials : getSecret(currentConfiguration, k) = Null}

\* The configuration keys the message of error e names: one at most
\* (`Missing required secret ${key}. ...`).
namedBy(e) == IF e.kind = "missing-secret" THEN {e.key} ELSE {}

\* The call with outcome r failed before any request with a configuration
\* error that names every key of missing.
failsNaming(r, missing) ==
  /\ ~r.ok
  /\ r.status = NoRequest
  /\ r.error.kind = "missing-secret"
  /\ missing \subseteq namedBy(r.error)

\* Every remote operation made now fails naming every key of missing.
allFailNaming(missing) ==
  /\ failsNaming(putBlobFromBuffer(World, KeyA, StoredBlob.buffer,
                                   StoredBlob.contentType, Null, Ok), missing)
  /\ failsNaming(readBlob(World, KeyA, Ok), missing)
  /\ failsNaming(deleteBlob(World, KeyA, Ok), missing)
  /\ failsNaming(listBlobs(World, <<>>, 0, <<>>, Ok, Held), missing)
  /\ failsNaming(deleteBlobsByPrefix(World, <<>>, Ok, Held, 0, Ok), missing)

\* The first remote operation is still to come: the mode is supabase and no
\* credentials are cached.
beforeFirstRemote ==
  /\ configuredMode.ok /\ configuredMode.value = ModeSupabase
  /\ ~supabaseState.set

\* C23 as stated: in every reachable world in supabase mode with no
\* credentials cached and one or more of the three credentials missing,
\* every remote operation fails, before any request, with a configuration
\* error whose message names every missing key.
C23_ErrorNamesEveryMissingKey ==
  (beforeFirstRemote /\ missingNow # {}) => allFailNaming(missingNow)

\* C23's failing case: a remote operation has thrown before any request
\* while two or more credentials are missing and none are cached.
C23_Witness ==
  /\ last.op \in {"put", "read", "delete", "list", "delete-prefix"}
  /\ ~last.ok /\ last.status = NoRequest
  /\ beforeFirstRemote /\ cache.loaded
  /\ Cardinality(missingNow) >= 2

\* The first of the missing credentials in the order the code asks for
\* them.
firstMissing ==
  IF "SUPABASE_URL" \in missingNow THEN "SUPABASE_URL"
  ELSE IF "SUPABASE_SERVICE_ROLE_KEY" \in missingNow THEN "SUPABASE_SERVICE_ROLE_KEY"
  ELSE "SUPABASE_STORAGE_BUCKET"

\* C23 for the first missing key: the error names it, and no other.
C23_ErrorNamesFirstMissingKey ==
  (beforeFirstRemote /\ missingNow # {}) => allFailNaming({firstMissing})

\* A string that is set and not empty.
nonEmpty(v) == v # Null /\ v # <<>>

\* The credentials cache st is empty, or holds an endpoint, a key and a
\* bucket that are each not empty.
allOrNothing(st) ==
  \/ st = NoSupabase
  \/ st.set /\ nonEmpty(st.url) /\ nonEmpty(st.key) /\ nonEmpty(st.bucket)

\* The call with outcome r threw and left the credentials cache empty, and
\* once the operator has completed the configuration and refreshed the
\* secrets, a put in the world it left resolves and caches the credentials.
failedEmpty(r) ==
  /\ ~r.ok
  /\ r.world.supabaseState = NoSupabase
  /\ putBlobFromBuffer(refreshSecretsCache([r.world EXCEPT !.source = RemoteSource]),
                       KeyA, StoredBlob.buffer, StoredBlob.contentType, Null, Ok).ok
  /\ putBlobFromBuffer(refreshSecretsCache([r.world EXCEPT !.source = RemoteSource]),
                       KeyA, StoredBlob.buffer, StoredBlob.contentType, Null, Ok)
       .world.supabaseState = credentialsOf(RemoteSource)

\* Every initialization attempt made now, by each remote operation, throws
\* and leaves the cache empty.
attemptsFailEmpty ==
  /\ failedEmpty(putBlobFromBuffer(World, KeyA, StoredBlob.buffer,
                                   StoredBlob.contentType, Null, Ok))
  /\ failedEmpty(readBlob(World, KeyA, Ok))
  /\ failedEmpty(deleteBlob(World, KeyA, Ok))
  /\ failedEmpty(listBlobs(World, <<>>, 0, <<>>, Ok, Held))
  /\ failedEmpty(deleteBlobsByPrefix(World, <<>>, Ok, Held, 0, Ok))

\* C25 as stated: in every reachable world the credentials cache is empty
\* or holds a non-empty endpoint URL, service key and bucket together, and
\* with any of the three missing an initialization attempt throws and
\* leaves the cache empty, so that a later operation checks the
\* configuration again.
C25_CredentialsAllOrNothing ==
  /\ allOrNothing(supabaseState)
  /\ (beforeFirstRemote /\ missingNow # {}) => attemptsFailEmpty

\* C25's failing case: a remote operation has run and the credentials
\* cache holds an empty endpoint URL.
C25_Witness ==
  /\ last.op \in {"put", "read", "delete", "list", "delete-prefix"}
  /\ source = SlashUrlSource
  /\ supabaseState.set
  /\ supabaseState.url = <<>>

\* C25 with "set" for "non-empty" of the endpoint URL: the cache is empty
\* or holds the three together, key and bucket not empty.
C25_CredentialsTogether ==
  /\ \/ supabaseState = NoSupabase
     \/ /\ supabaseState.set /\ supabaseState.url # Null
        /\ nonEmpty(supabaseState.key) /\ nonEmpty(supabaseState.bucket)
  /\ (beforeFirstRemote /\ missingNow # {}) => attemptsFailEmpty

(***************************************************************************)
(* The handlers specification: in memory mode, request handlers call put,  *)
(* read, delete, deleteBlobsByPrefix and list on the shared memory store.  *)
(* Each call is taken statement by statement: a call that loops over the   *)
(* store does one turn of its loop per step. The event loop gives the      *)
(* thread to another handler only when the running call awaits or returns. *)
(***************************************************************************)

\* The keys the handlers use, and the prefixes.
HandlerKeys == {KeyLowerA, KeyPA}

HandlerPrefixes == {<<>>, PrefixP}

\* The most calls the handlers make in a behaviour.
MaxCalls == 2

\* What a call returned, by operation: readBlob (found, buffer), deleteBlob
\* (existed), deleteBlobsByPrefix (removed), listBlobs (names).
Outcome(found, buffer, existed, removed, names) ==
  [found |-> found, buffer |-> buffer, existed |-> existed, removed |-> removed,
   names |-> names]

NoOutcome == Outcome(FALSE, <<>>, FALSE, 0, <<>>)

\* A call of a handler: pc is "loop" while it is in its loop over the
\* store and "done" when it has returned; todo are the keys its loop has
\* still to visit (deleteBlobsByPrefix), visited the keys its iterator has
\* passed and matches the keys it has pushed (listMemoryBlobs).
HandlerCall(op, arg, blob, pc, todo, visited, matches, outcome) ==
  [op |-> op, arg |-> arg, blob |-> blob, pc |-> pc, todo |-> todo,
   visited |-> visited, matches |-> matches, outcome |-> outcome]

\* Whether a call of op in memory mode hands the thread back to the event
\* loop at pc: the memory branch of every operation has no await.
yieldsInLoop(op, pc) == pc = "loop"

yields(op, pc) == FALSE

\* The handler that holds the thread once call id has done a step at pc.
holder(id, op, pc) == IF pc = "done" \/ yields(op, pc) THEN 0 ELSE id

\* The blob the id-th call puts.
blobOf(id) == IF id = 1 THEN StoredBlob ELSE SecondBlob

InitHandlers ==
  /\ source = MemorySource
  /\ cache = NoCache
  /\ supabaseState = NoSupabase
  /\ memoryStore \in
       {EmptyStore,
        storeSet(storeSet(EmptyStore, KeyLowerA, MemoryBlobRecord(<<7>>, TextPlain)),
                 KeyPA, MemoryBlobRecord(<<8>>, TextPlain))}
  /\ remoteStore = EmptyStore
  /\ last = NoCall
  /\ listing = NoListing
  /\ inflight = NoFlight
  /\ issued = <<>>
  /\ now = 1
  /\ asked = NoAsk
  /\ threads = [NoThreads EXCEPT !.initial = memoryStore]

\* A handler's call starts, when no call holds the thread: it resolves the
\* mode (the first lookup fills the secrets cache) and runs up to its loop,
\* or to its return when it has none. store is the memory store it leaves.
Started(call, store) ==
  /\ threads.running = 0
  /\ Len(threads.calls) < MaxCalls
  /\ resolve(enter(World)).mode.ok
  /\ resolve(enter(World)).mode.value = ModeMemory
  /\ cache' = enter(World).cache
  /\ memoryStore' = store
  /\ threads' = [threads EXCEPT
                   !.calls = Append(@, call),
                   !.running = holder(Len(threads.calls) + 1, call.op, call.pc)]
  /\ UNCHANGED <<source, supabaseState, remoteStore, last, listing, inflight,
                 issued, now, asked>>

\* putBlobFromBuffer: memoryStore.set(targetPath, stored), return.
StartPut ==
  \E key \in HandlerKeys :
    Started(HandlerCall("put", key, blobOf(Len(threads.calls) + 1), "done", <<>>, {},
                        <<>>, NoOutcome),
            storeSet(memoryStore, normalizePath(key),
                     MemoryBlobRecord(blobOf(Len(threads.calls) + 1).buffer,
                                      blobOf(Len(threads.calls) + 1).contentType)))

\* readBlob: memoryStore.get(normalizedPath), return.
StartRead ==
  \E key \in HandlerKeys :
    Started(HandlerCall("read", key, StoredBlob, "done", <<>>, {}, <<>>,
                        IF normalizePath(key) \in DOMAIN memoryStore
                        THEN Outcome(TRUE, memoryStore[normalizePath(key)].buffer,
                                     FALSE, 0, <<>>)
                        ELSE NoOutcome),
            memoryStore)

\* deleteBlob: existed = memoryStore.delete(normalized), return.
StartDelete ==
  \E key \in HandlerKeys :
    Started(HandlerCall("delete", key, StoredBlob, "done", <<>>, {}, <<>>,
                        Outcome(FALSE, <<>>, normalizePath(key) \in DOMAIN memoryStore,
                                0, <<>>)),
            storeDelete(memoryStore, normalizePath(key)))

\* deleteBlobsByPrefix: Array.from(memoryStore.keys()), then the loop.
StartDeletePrefix ==
  \E prefix \in HandlerPrefixes :
    Started(HandlerCall("delete-prefix", prefix, StoredBlob, "loop",
                        SetToSeq(DOMAIN memoryStore), {}, <<>>, NoOutcome),
            memoryStore)

\* listBlobs, listMemoryBlobs: memoryStore.entries(), then the loop.
StartList ==
  \E prefix \in HandlerPrefixes :
    Started(HandlerCall("list", prefix, StoredBlob, "loop", <<>>, {}, <<>>, NoOutcome),
            memoryStore)

\* Call id, in its loop, may take a step: it holds the thread, or it had
\* handed it back and no call holds it.
mayStep(id) ==
  /\ id \in 1..Len(threads.calls)
  /\ threads.calls[id].pc = "loop"
  /\ threads.running \in {0, id}

\* The step of call id that makes it call, with the memory store left
\* store.
Stepped(id, call, store) ==
  /\ memoryStore' = store
  /\ threads' = [threads EXCEPT !.calls[id] = call,
                                !.running = holder(id, call.op, call.pc)]
  /\ UNCHANGED <<source, cache, supabaseState, remoteStore, last, listing, inflight,
                 issued, now, asked>>

\* One turn of the loop of deleteBlobsByPrefix: the next key of the array
\* is deleted and counted when it starts with the prefix.
nextDeleted(call) ==
  IF matchesPrefix(Head(call.todo), normalizePath(call.arg))
  THEN [call EXCEPT !.todo = Tail(@),
                    !.outcome.removed = @ + 1]
  ELSE [call EXCEPT !.todo = Tail(@)]

StepDeletePrefix ==
  \E id \in 1..MaxCalls :
    /\ mayStep(id)
    /\ threads.calls[id].op = "delete-prefix"
    /\ threads.calls[id].todo # <<>>
    /\ Stepped(id, nextDeleted(threads.calls[id]),
               IF matchesPrefix(Head(threads.calls[id].todo),
                                normalizePath(threads.calls[id].arg))
               THEN storeDelete(memoryStore, Head(threads.calls[id].todo))
               ELSE memoryStore)

\* The entry the iterator of memoryStore.entries() gives next: one that is
\* in the map now and that it has not passed.
nextEntry(call) == CHOOSE k \in DOMAIN memoryStore \ call.visited : TRUE

\* One turn of the loop of listMemoryBlobs: the next entry is pushed when
\* its pathname starts with the prefix.
nextListed(call, k) ==
  IF matchesPrefix(k, normalizePath(call.arg))
  THEN [call EXCEPT !.visited = @ \cup {k}, !.matches = Append(@, k)]
  ELSE [call EXCEPT !.visited = @ \cup {k}]

StepList ==
  \E id \in 1..MaxCalls :
    /\ mayStep(id)
    /\ threads.calls[id].op = "list"
    /\ DOMAIN memoryStore \ threads.calls[id].visited # {}
    /\ Stepped(id, nextListed(threads.calls[id], nextEntry(threads.calls[id])),
               memoryStore)

\* What a call returns once its loop is over: removed, or the page that
\* filterByCursor makes of the matches.
returned(call) ==
  IF call.op = "delete-prefix" THEN [call EXCEPT !.pc = "done"]
  ELSE [call EXCEPT
          !.pc = "done",
          !.outcome.names =
             pathnames(listResult(filterByCursor(memoryMatches(cache, call.matches),
                                                 DefaultListLimit, <<>>)).blobs)]

\* The loop of a call is over.
loopOver(call) ==
  IF call.op = "delete-prefix" THEN call.todo = <<>>
  ELSE DOMAIN memoryStore \ call.visited = {}

Return ==
  \E id \in 1..MaxCalls :
    /\ mayStep(id)
    /\ loopOver(threads.calls[id])
    /\ Stepped(id, returned(threads.calls[id]), memoryStore)

NextHandlers ==
  \/ StartPut
  \/ StartRead
  \/ StartDelete
  \/ StartDeletePrefix
  \/ StartList
  \/ StepDeletePrefix
  \/ StepList
  \/ Return

SpecHandlers == InitHandlers /\ [][NextHandlers]_vars

(***************************************************************************)
(* Properties of the handlers specification                                *)
(***************************************************************************)

\* The call made in one piece in world w: the facade operation.
atomicPut(w, call) ==
  putBlobFromBuffer(w, call.arg, call.blob.buffer, call.blob.contentType, Null,
                    NoResponse)

\* The world the call leaves when it is made in one piece in world w.
atomicWorld(w, call) ==
  CASE call.op = "put" -> atomicPut(w, call).world
    [] call.op = "read" -> readBlob(w, call.arg, NoResponse).world
    [] call.op = "delete" -> deleteBlob(w, call.arg, NoResponse).world
    [] call.op = "delete-prefix" ->
         deleteBlobsByPrefix(w, call.arg, NoResponse, <<>>, 0, NoResponse).world
    [] call.op = "list" -> listBlobs(w, call.arg, 0, <<>>, NoResponse, <<>>).world

\* What a read made in one piece returns.
atomicRead(r) ==
  IF r.found THEN Outcome(TRUE, r.object.buffer, FALSE, 0, <<>>) ELSE NoOutcome

\* What the call returns when it is made in one piece in world w.
atomicOutcome(w, call) ==
  CASE call.op = "put" -> NoOutcome
    [] call.op = "read" -> atomicRead(readBlob(w, call.arg, NoResponse))
    [] call.op = "delete" ->
         Outcome(FALSE, <<>>, deleteBlob(w, call.arg, NoResponse).result, 0, <<>>)
    [] call.op = "delete-prefix" ->
         Outcome(FALSE, <<>>, FALSE,
                 deleteBlobsByPrefix(w, call.arg, NoResponse, <<>>, 0, NoResponse).removed,
                 <<>>)
    [] call.op = "list" ->
         Outcome(FALSE, <<>>, FALSE, 0,
                 pathnames(listBlobs(w, call.arg, 0, <<>>, NoResponse, <<>>).blobs))

\* The calls made one after the other in the given order from world w give
\* the outcomes the calls have, and leave the memory store final.
RECURSIVE inOrder(_, _, _, _)
inOrder(w, calls, order, final) ==
  IF order = <<>> THEN w.memoryStore = final
  ELSE /\ atomicOutcome(w, calls[Head(order)]) = calls[Head(order)].outcome
       /\ inOrder(atomicWorld(w, calls[Head(order)]), calls, Tail(order), final)

\* The orders of n calls.
Orders(n) == {order \in [1..n -> 1..n] : \A i, j \in 1..n : order[i] = order[j] => i = j}

\* Every call that started has returned.
allReturned ==
  /\ threads.running = 0
  /\ \A id \in 1..Len(threads.calls) : threads.calls[id].pc = "done"

\* The calls, as they were interleaved, did what they do made one after
\* the other in some order from the store they found.
serializable ==
  \E order \in Orders(Len(threads.calls)) :
    inOrder([World EXCEPT !.memoryStore = threads.initial], threads.calls, order,
            memoryStore)

\* A call holds the thread from its start to its return: while it is in
\* its loop no other call starts or steps.
holdsThread ==
  \A id \in 1..Len(threads.calls) :
    threads.calls[id].pc = "loop" => threads.running = id

\* C24: in memory mode, whenever the calls that the handlers started have
\* all returned, what they returned and the store they left are those of
\* the same calls made one after the other in some order; and a call in
\* its loop holds the thread, so that no read or list runs between two
\* turns of the loop of a prefix delete, nor a put or delete between two
\* turns of the loop of a list.
C24_MemoryCallsAtomic ==
  /\ holdsThread
  /\ allReturned => serializable

\* C24's case: a prefix delete that removed two objects and a list, made
\* by two handlers, have both returned.
C24_Witness ==
  /\ allReturned
  /\ Len(threads.calls) = 2
  /\ \E id \in 1..2 :
       /\ threads.calls[id].op = "delete-prefix"
       /\ threads.calls[id].outcome.removed = 2
  /\ \E id \in 1..2 : threads.calls[id].op = "list"

(***************************************************************************)
(* The request handlers. A handler is a function of the world it runs in,  *)
(* its request and the answers its calls get, to its response and the      *)
(* world it leaves. The data layer (createSession, appendTurn) is called   *)
(* or not; what it stores is not part of these handlers.                   *)
(***************************************************************************)

\* NextResponse.json(body, {status}): ok is the body's ok field ("absent"
\* when the body has none); parsed: the request body was read; called: the
\* data layer was called; steps: the probe steps pushed.
routeResponse(world, status, ok, parsed, called, steps) ==
  [world |-> world, thrown |-> FALSE, status |-> status, ok |-> ok,
   parsed |-> parsed, called |-> called, steps |-> steps]

\* A handler that threw: the framework answers, not the handler.
routeThrown(world, parsed) ==
  [world |-> world, thrown |-> TRUE, status |-> 0, ok |-> "absent",
   parsed |-> parsed, called |-> FALSE, steps |-> <<>>]

\* primeStorageContextFromHeaders(headers): it only logs, and the log
\* reads the secrets.
primeStorageContextFromHeaders(w0) == enter(w0)

\* A summary that takes the storage for configured whatever it reports.
envSummaryAssumed(env) == TRUE

\* formatEnvSummary().configured: what getBlobEnvironment() reports, FALSE
\* when it throws.
envSummaryConfigured(env) == env.ok /\ env.configured

\* The bodies a request carries: not JSON, JSON the handler's schema
\* rejects (the start handler has no schema), JSON it takes.
Bodies == {"malformed", "invalid", "valid"}

\* What createSession does: a session with an id, one without, a throw.
CreateOutcomes == {"id", "no-id", "throws"}

\* What appendTurn does: the turn, 'session not found', another throw.
AppendOutcomes == {"turn", "missing", "throws"}

\* src/app/api/session/start/route.ts, POST from l.61 on, in world w (the
\* logs have called getBlobEnvironment); email: whether
\* resolveDefaultNotifyEmailServer() returned.
startParsed(w, env, email, create) ==
  IF ~email THEN routeThrown(w, TRUE)
  ELSE IF ~envSummaryConfigured(env)
  THEN routeResponse(env.world, 500, "false", TRUE, FALSE, <<>>)
  ELSE IF create = "id" THEN routeResponse(env.world, 200, "absent", TRUE, TRUE, <<>>)
  ELSE routeResponse(env.world, 500, "false", TRUE, TRUE, <<>>)

startPrimed(w, body, email, create) ==
  IF ~w.cache.loaded THEN routeThrown(w, FALSE)
  ELSE IF body = "malformed"
  THEN routeResponse(getBlobEnvironment(w).world, 400, "false", TRUE, FALSE, <<>>)
  ELSE startParsed(w, getBlobEnvironment(w), email, create)

\* POST /api/session/start
sessionStart(w0, body, email, create) ==
  startPrimed(primeStorageContextFromHeaders(w0), body, email, create)

\* src/app/api/session/[id]/turn/route.ts, POST from l.36 on.
turnSummarized(env, body, append) ==
  IF ~envSummaryConfigured(env)
  THEN routeResponse(env.world, 500, "false", FALSE, FALSE, <<>>)
  ELSE IF body # "valid" THEN routeResponse(env.world, 400, "absent", TRUE, FALSE, <<>>)
  ELSE IF append = "turn" THEN routeResponse(env.world, 200, "absent", TRUE, TRUE, <<>>)
  ELSE IF append = "missing" THEN routeResponse(env.world, 404, "absent", TRUE, TRUE, <<>>)
  ELSE routeResponse(env.world, 400, "absent", TRUE, TRUE, <<>>)

turnPrimed(w, body, append) ==
  IF ~w.cache.loaded THEN routeThrown(w, FALSE)
  ELSE turnSummarized(getBlobEnvironment(w), body, append)

\* POST /api/session/[id]/turn
sessionTurn(w0, body, append) ==
  turnPrimed(primeStorageContextFromHeaders(w0), body, append)

\* randomUUID(), two of its values.
ProbeIds == {<<"1">>, <<"7">>}

\* `diagnostics/${probeId}/probe.json`
probePath(probeId) ==
  <<"d", "i", "a", "g", "n", "o", "s", "t", "i", "c", "s", "/">> \o probeId
    \o <<"/", "p", "r", "o", "b", "e", ".", "j", "s", "o", "n">>

ApplicationJson ==
  <<"a", "p", "p", "l", "i", "c", "a", "t", "i", "o", "n", "/", "j", "s", "o", "n">>

\* Buffer.from(JSON.stringify({probeId, startedAt})): the bytes stand for
\* the probe id they spell.
probePayload(probeId) == probeId

\* steps.push({id, ok, ...}); key is the key the step was made on.
FlowStep(id, key, ok) == [id |-> id, key |-> key, ok |-> ok]

NoKey == <<>>

\* steps.every((step) => step.ok)
everyStepOk(steps) == \A i \in 1..Len(steps) : steps[i].ok

\* The catch block of the handler: jsonErrorResponse(error, ...).
jsonErrorResponse(world) ==
  [world |-> world, thrown |-> FALSE, status |-> 500, ok |-> "false",
   parsed |-> FALSE, called |-> FALSE, steps |-> <<>>]

\* route.ts l.139-164: the delete step and the response.
probeDeleted(steps, path, deleted) ==
  IF ~deleted.ok
  THEN routeResponse(deleted.world, 500, "false", FALSE, FALSE,
                     steps \o <<FlowStep("delete", path, FALSE)>>)
  ELSE routeResponse(deleted.world, 200,
                     IF everyStepOk(steps \o <<FlowStep("delete", path, TRUE)>>)
                     THEN "true" ELSE "false",
                     FALSE, FALSE, steps \o <<FlowStep("delete", path, TRUE)>>)

\* A read step that goes on to the delete step whatever it read.
probeReadOn(steps, path, record, answer) ==
  probeDeleted(steps \o <<FlowStep("read", path, record.ok /\ record.found)>>, path,
               deleteBlob(record.world, path, answer))

\* route.ts l.105-137: the read step; record is what readBlob(path) did, in
\* the world the upload left, and answer is the backend's answer to the
\* DELETE.
probeRead(steps, path, record, answer) ==
  IF ~record.ok \/ ~record.found
  THEN routeResponse(record.world, 500, "false", FALSE, FALSE,
                     steps \o <<FlowStep("read", path, FALSE)>>)
  ELSE probeDeleted(steps \o <<FlowStep("read", path, TRUE)>>, path,
                    deleteBlob(record.world, path, answer))

\* The world the handler finds after an await: as it left it, or, raced,
\* with the probe object deleted by another request's deleteBlob.
meanwhile(w, path, raced) ==
  IF raced THEN deleteBlob(w, path, IF CallsBackend(w) THEN Ok ELSE NoResponse).world
  ELSE w

\* route.ts l.83-103: the upload step; uploaded is what putBlobFromBuffer
\* did, answers the backend's answers to the calls that follow.
probeUploaded(path, uploaded, answers) ==
  IF ~uploaded.ok
  THEN routeResponse(uploaded.world, 500, "false", FALSE, FALSE,
                     <<FlowStep("upload", path, FALSE)>>)
  ELSE probeRead(<<FlowStep("upload", path, TRUE)>>, path,
                 readBlob(meanwhile(uploaded.world, path, answers.raced), path,
                          answers.read),
                 answers.delete)

\* route.ts l.57-82: the configuration check, with the report env and the
\* health report.
probeChecked(env, health, probeId, answers) ==
  IF ~health.ok THEN jsonErrorResponse(health.world)
  ELSE IF ~env.configured \/ env.error # NoError
  THEN routeResponse(health.world, 500, "false", FALSE, FALSE,
                     <<FlowStep("storage-unconfigured", NoKey, FALSE)>>)
  ELSE probeUploaded(probePath(probeId),
                     putBlobFromBuffer(health.world, probePath(probeId),
                                       probePayload(probeId), ApplicationJson, Null,
                                       answers.upload),
                     answers)

probeResolved(env, probeId, answers) ==
  IF ~env.ok THEN jsonErrorResponse(env.world)
  ELSE probeChecked(env, blobHealth(env.world, answers.health), probeId, answers)

probePrimed(w, probeId, answers) ==
  IF ~w.cache.loaded THEN jsonErrorResponse(w)
  ELSE probeResolved(getBlobEnvironment(w), probeId, answers)

\* GET /api/diagnostics/storage; answers are the backend's answers to the
\* requests of blobHealth, putBlobFromBuffer, readBlob and deleteBlob.
storageDiagnostics(w0, probeId, answers) ==
  probePrimed(primeStorageContextFromHeaders(w0), probeId, answers)

(***************************************************************************)
(* The routes specification: the operator writes configurations (memory,   *)
(* supabase, supabase without its bucket, a secrets file that cannot be    *)
(* read) and refreshes the secrets cache; clients post session starts and  *)
(* turns and ask for the storage diagnostics.                              *)
(***************************************************************************)

RouteSources ==
  {MemorySource, RemoteSource, without(RemoteSource, "SUPABASE_STORAGE_BUCKET"),
   UnreadableSource}

RouteAnswers == IF CallsBackend(World) THEN {Ok, ServerError} ELSE {NoResponse}

\* The backend's answers to the four requests of a probe, and whether
\* another request deleted the probe object between the upload and the read.
ProbeAnswers ==
  [health : RouteAnswers, upload : RouteAnswers, read : RouteAnswers,
   delete : RouteAnswers, raced : BOOLEAN]

InitRoutes ==
  /\ source \in RouteSources
  /\ cache = NoCache
  /\ supabaseState = NoSupabase
  /\ memoryStore = EmptyStore
  /\ remoteStore = EmptyStore
  /\ last = NoCall
  /\ listing = NoListing
  /\ Idle

\* The step of a request to handler op that ended as r.
CommitRoute(op, r) ==
  /\ source' = r.world.source
  /\ cache' = r.world.cache
  /\ supabaseState' = r.world.supabaseState
  /\ memoryStore' = r.world.memoryStore
  /\ remoteStore' = r.world.remoteStore
  /\ last' = [op |-> op, ok |-> ~r.thrown, status |-> r.status, returned |-> r.ok,
               parsed |-> r.parsed, called |-> r.called, steps |-> r.steps]
  /\ UNCHANGED <<listing, callers>>

RouteConfigure == \E src \in RouteSources : SetSource(src)

PostSessionStart ==
  \E body \in Bodies, email \in BOOLEAN, create \in CreateOutcomes :
    CommitRoute("session-start", sessionStart(World, body, email, create))

PostSessionTurn ==
  \E body \in Bodies, append \in AppendOutcomes :
    CommitRoute("session-turn", sessionTurn(World, body, append))

GetStorageDiagnostics ==
  \E probeId \in ProbeIds, answers \in ProbeAnswers :
    CommitRoute("diagnostics", storageDiagnostics(World, probeId, answers))

NextRoutes ==
  \/ RouteConfigure
  \/ RefreshSecretsCache
  \/ PostSessionStart
  \/ PostSessionTurn
  \/ GetStorageDiagnostics

SpecRoutes == InitRoutes /\ [][NextRoutes]_vars

(***************************************************************************)
(* C26                                                                     *)
(***************************************************************************)

\* getBlobEnvironment() reports configured false.
reportsUnconfigured(env) == env.ok /\ ~env.configured

\* The handler answered 500 with ok false and did not call the data layer.
refused(r) == ~r.thrown /\ ~r.called /\ r.status = 500 /\ r.ok = "false"

\* C26 as stated: when getBlobEnvironment() reports configured false, the
\* session start handler and the session turn handler answer every request
\* with status 500 and ok false without calling createSession or
\* appendTurn, the turn handler before it parses the body.
C26_UnconfiguredAnswers500 ==
  reportsUnconfigured(getBlobEnvironment(World)) =>
    /\ \A body \in Bodies, create \in CreateOutcomes :
         refused(sessionStart(World, body, TRUE, create))
    /\ \A body \in Bodies, append \in AppendOutcomes :
         /\ refused(sessionTurn(World, body, append))
         /\ ~sessionTurn(World, body, append).parsed

\* What the start handler does with a request when the storage is not
\* configured: 400 for a body that is not JSON, a throw when the default
\* email lookup throws, else the refusal.
startRefused(r, body, email) ==
  /\ ~r.called
  /\ r.parsed
  /\ body = "malformed" => ~r.thrown /\ r.status = 400 /\ r.ok = "false"
  /\ body # "malformed" /\ email => refused(r)
  /\ body # "malformed" /\ ~email => r.thrown

\* C26, amended: when getBlobEnvironment() reports configured false,
\* neither handler calls createSession or appendTurn; the turn handler
\* answers 500 with ok false before it parses the body; the start handler,
\* which reads the body first, answers 400 with ok false to a body that is
\* not JSON and otherwise, once its default-email lookup has returned, 500
\* with ok false.
C26_UnconfiguredNeverCallsData ==
  reportsUnconfigured(getBlobEnvironment(World)) =>
    /\ \A body \in Bodies, email \in BOOLEAN, create \in CreateOutcomes :
         startRefused(sessionStart(World, body, email, create), body, email)
    /\ \A body \in Bodies, append \in AppendOutcomes :
         /\ refused(sessionTurn(World, body, append))
         /\ ~sessionTurn(World, body, append).parsed

\* C26's case: with the bucket missing, a session start was refused.
C26_Witness ==
  /\ reportsUnconfigured(getBlobEnvironment(World))
  /\ last.op = "session-start"
  /\ last.status = 500
  /\ ~last.called

(***************************************************************************)
(* C27                                                                     *)
(***************************************************************************)

ProbeOrder == <<"upload", "read", "delete">>

\* The steps are the first steps of upload, read, delete, each made on key
\* path.
inProbeOrder(steps, path) ==
  /\ Len(steps) <= Len(ProbeOrder)
  /\ \A i \in 1..Len(steps) : steps[i].id = ProbeOrder[i] /\ steps[i].key = path

\* No step follows a step that failed.
stopsAtFailure(steps) == \A i \in 1..(Len(steps) - 1) : steps[i].ok

\* The probe ran no step: it made no upload, read or delete, and the
\* stores are those of world w.
ranNoStep(d, w) ==
  /\ \A i \in 1..Len(d.steps) : d.steps[i].id \notin {"upload", "read", "delete"}
  /\ d.world.memoryStore = w.memoryStore
  /\ d.world.remoteStore = w.remoteStore

\* What the probe d did, started in world w on key path where the
\* environment report was env, against what upload, read and delete did
\* when called one after the other (read in the world the upload and any
\* other request left).
probeAsSpecified(d, w, env, path) ==
  /\ ~d.thrown
  /\ ~env.ok => ranNoStep(d, w)
  /\ env.ok /\ ~env.configured => ranNoStep(d, w) /\ d.status = 500
  /\ env.ok /\ env.configured =>
       /\ inProbeOrder(d.steps, path)
       /\ Len(d.steps) >= 1
       /\ stopsAtFailure(d.steps)
       /\ ~everyStepOk(d.steps) => d.status = 500
  /\ d.ok = "true" <=> env.ok /\ env.configured /\ Len(d.steps) = 3 /\ everyStepOk(d.steps)
  /\ d.ok = "true" => d.status = 200

\* C27: the storage diagnostics handler runs upload, read, delete in this
\* order on the one probe key; it runs no step when the environment is not
\* configured; it stops at the first step that fails, with status 500; it
\* reports ok true exactly when the three steps ran and succeeded, a read
\* that returns null counting as failed.
C27_ProbeStepsInOrder ==
  \A probeId \in ProbeIds, answers \in ProbeAnswers :
    /\ probeAsSpecified(storageDiagnostics(World, probeId, answers), World,
                        getBlobEnvironment(World), probePath(probeId))
    /\ answers.raced =>
         \A i \in 1..Len(storageDiagnostics(World, probeId, answers).steps) :
           storageDiagnostics(World, probeId, answers).steps[i].id = "read" =>
             ~storageDiagnostics(World, probeId, answers).steps[i].ok

\* C27's cases: a probe has run its three steps and reported ok true ...
C27_Witness ==
  /\ last.op = "diagnostics"
  /\ last.returned = "true"
  /\ Len(last.steps) = 3
  /\ CallsBackend(World)

\* ... and a probe has stopped at a read that returned null.
C27_ReadNullStops ==
  /\ last.op = "diagnostics"
  /\ last.status = 500
  /\ Len(last.steps) = 2
  /\ last.steps[2].id = "read"
  /\ ~last.steps[2].ok
  /\ DOMAIN remoteStore = {}

(***************************************************************************)
(* C30                                                                     *)
(***************************************************************************)

\* Step id of the probe d was made and succeeded.
stepOk(d, id) == \E i \in 1..Len(d.steps) : d.steps[i].id = id /\ d.steps[i].ok

\* Step id of the probe d was made and failed.
stepFailed(d, id) == \E i \in 1..Len(d.steps) : d.steps[i].id = id /\ ~d.steps[i].ok

\* Key path is stored in the backend that the mode of world w selects.
storedIn(w, path) ==
  IF CallsBackend(w) THEN path \in DOMAIN w.remoteStore
  ELSE path \in DOMAIN w.memoryStore

\* The probe d left no object at path, unless its delete step failed.
leftNothing(d, path) ==
  stepOk(d, "upload") /\ ~stepFailed(d, "delete") => ~storedIn(d.world, path)

\* C30: the storage diagnostics handler leaves no probe object behind: on
\* every path on which the upload step succeeded, the paths where the read
\* step fails or returns null included, the probe key is not stored when
\* the handler returns, unless the delete step failed.
C30_ProbeLeavesNothing ==
  \A probeId \in ProbeIds, answers \in ProbeAnswers :
    leftNothing(storageDiagnostics(World, probeId, answers), probePath(probeId))

\* The case that fails: a probe whose read step failed has returned and
\* its object is stored.
C30_Witness ==
  /\ last.op = "diagnostics"
  /\ Len(last.steps) = 2
  /\ last.steps[1].ok
  /\ ~last.steps[2].ok
  /\ \E probeId \in ProbeIds : probePath(probeId) \in DOMAIN remoteStore

\* What holds: a probe whose read step succeeded leaves no object behind,
\* unless its delete step failed.
C30_ProbeRemovedAfterRead ==
  \A probeId \in ProbeIds, answers \in ProbeAnswers :
    stepOk(storageDiagnostics(World, probeId, answers), "read") =>
      leftNothing(storageDiagnostics(World, probeId, answers), probePath(probeId))

(***************************************************************************)
(* The prefix specification: in one mode, callers put objects under keys   *)
(* inside and outside a directory p and delete by prefix; the storage      *)
(* service answers a list call with the objects of the folder it is asked  *)
(* for.                                                                    *)
(***************************************************************************)

KeyPQ == <<"p", "q">>

PrefixBareP == <<"p">>

PrefixSlashP == <<"/", "p", "/">>

PrefixKeys == {KeyLowerA, KeyPA, KeyPQ}

DeletePrefixes == {<<>>, PrefixBareP, PrefixP, PrefixSlashP}

\* The folder a list request for prefix names: the prefix up to its
\* trailing slashes, and the slash that separates it from the names.
folderOf(prefix) ==
  IF prefix = <<>> THEN <<>> ELSE stripTrailingSlashes(prefix) \o <<"/">>

\* The first n of seq.
firstOf(seq, n) == SubSeq(seq, 1, IF Len(seq) < n THEN Len(seq) ELSE n)

\* The data of the answer to supabaseList(state, prefix, limit): the names,
\* relative to the folder, of the objects the service holds under it, at
\* most limit of them.
supabaseList(store, prefix, limit) ==
  firstOf(SetToSeq({SubSeq(k, Len(folderOf(prefix)) + 1, Len(k)) :
                      k \in {h \in DOMAIN store : startsWith(h, folderOf(prefix))}}),
          limit)

PrefixAnswers == IF CallsBackend(World) THEN {Ok, ServerError} ELSE {NoResponse}

InitPrefix ==
  /\ source \in {MemorySource, RemoteSource}
  /\ cache = NoCache
  /\ supabaseState = NoSupabase
  /\ memoryStore = EmptyStore
  /\ remoteStore = EmptyStore
  /\ last = NoCall
  /\ listing = NoListing
  /\ Idle

PrefixPut ==
  \E key \in PrefixKeys, blob \in Blobs, resp \in PrefixAnswers :
    PutBlobFromBuffer(key, blob.buffer, blob.contentType, Null, resp)

\* deleteBlobsByPrefix(prefix): the list call is answered resp, and the
\* failAt-th DELETE failResp.
PrefixDelete ==
  \E prefix \in DeletePrefixes, resp \in PrefixAnswers, failAt \in 0..1,
     failResp \in PrefixAnswers :
    DeleteBlobsByPrefix(prefix, resp,
                        supabaseList(remoteStore, normalizePath(prefix),
                                     PrefixDeleteLimit),
                        failAt, failResp)

NextPrefix ==
  \/ PrefixPut
  \/ PrefixDelete

SpecPrefix == InitPrefix /\ [][NextPrefix]_vars

(***************************************************************************)
(* C28                                                                     *)
(***************************************************************************)

\* The store of the mode in force in world w.
storeOf(w) == IF CallsBackend(w) THEN w.remoteStore ELSE w.memoryStore

\* The keys of store that start with the normalized prefix.
startingWith(store, normalized) == {k \in DOMAIN store : startsWith(k, normalized)}

\* The prefix delete r, made on store before, removed the keys that start
\* with the normalized prefix and only those, and returned their number.
prefixDeleted(r, before, normalized) ==
  r.ok =>
    /\ startingWith(storeOf(r.world), normalized) = {}
    /\ \A k \in DOMAIN before \ startingWith(before, normalized) :
         k \in DOMAIN storeOf(r.world) /\ storeOf(r.world)[k] = before[k]
    /\ r.removed = Cardinality(startingWith(before, normalized))

\* deleteBlobsByPrefix(prefix) in the world as it is, every request
\* answered ok.
prefixDeleteNow(prefix) ==
  deleteBlobsByPrefix(World, prefix, IF CallsBackend(World) THEN Ok ELSE NoResponse,
                      supabaseList(remoteStore, normalizePath(prefix),
                                   PrefixDeleteLimit),
                      0, Ok)

\* C28: in either mode, after deleteBlobsByPrefix(p) returns no stored key
\* starts with the normalized p, every key that does not start with it is
\* unchanged, and the count returned is the number of keys that started
\* with it.
C28_PrefixDeleteRemovesAll ==
  \A prefix \in DeletePrefixes :
    prefixDeleted(prefixDeleteNow(prefix), storeOf(World), normalizePath(prefix))

\* The case that fails: in supabase mode a delete by prefix 'p' returned
\* and the key 'pq' is stored still.
C28_Witness ==
  /\ CallsBackend(World)
  /\ last.op = "delete-prefix"
  /\ last.ok
  /\ KeyPQ \in DOMAIN remoteStore
  /\ KeyPA \notin DOMAIN remoteStore

\* What holds: the claim in memory mode, and in supabase mode for the
\* empty prefix and for a prefix that ends with a slash.
C28_PrefixDeleteRemovesFolder ==
  \A prefix \in DeletePrefixes :
    ~CallsBackend(World) \/ folderOf(normalizePath(prefix)) = normalizePath(prefix) =>
      prefixDeleted(prefixDeleteNow(prefix), storeOf(World), normalizePath(prefix))

(***************************************************************************)
(* C29, on the listing specification                                       *)
(***************************************************************************)

\* The page r, asked for with cursor, returned a cursor that is greater.
cursorAdvanced(r, cursor) == r.ok /\ r.hasMore => afterCursor(r.cursor, cursor)

\* The page a caller that got a cursor asks for next, whatever the backend
\* answers, returns a cursor greater than the one it was asked with.
nextPageAdvances ==
  listing.pages > 0 /\ listing.hasMore =>
    \A resp \in ListAnswers, names \in SetListings :
      cursorAdvanced(listBlobs(World, listing.prefix, listing.limit, listing.cursor,
                               resp, names),
                     listing.cursor)

\* C29: pagination terminates: the cursor a page returns is strictly
\* greater than the cursor the page was asked with, for every set of stored
\* keys, mixed-case keys included, and every limit of at least 1, so that a
\* caller who feeds each cursor back gets hasMore false after finitely many
\* calls. Stated for the memory store, where the keys listed are the keys
\* stored.
C29_CursorStrictlyAdvances == inMemoryMode => nextPageAdvances

\* The case that fails: a caller got the same two keys on three pages and
\* holds the cursor it started the second page with.
C29_Witness ==
  /\ inMemoryMode
  /\ listing.pages = 3
  /\ listing.hasMore
  /\ listing.cursor = KeyUpperB
  /\ listing.keys = <<KeyLowerA, KeyUpperB, KeyLowerA, KeyUpperB, KeyLowerA, KeyUpperB>>

\* The locale order and the code-unit order agree on keys.
ordersAgree(keys) ==
  \A a \in keys, b \in keys : localeCompare(a, b) = 1 <=> CodeUnitGreater(a, b)

\* What holds: in memory mode, over stored keys on which the two orders
\* agree, the cursor advances.
C29_CursorAdvancesInOneOrder ==
  inMemoryMode /\ ordersAgree(DOMAIN memoryStore) => nextPageAdvances

====
